---- MODULE Spec2Model ----
(***************************************************************************)
(* Model of the uAT FreeRTOS dispatcher (uat_freertos.c): the handler      *)
(* table, the send-receive slot, the transmitter and the dispatcher task,  *)
(* interleaved with application tasks that call the public API.            *)
(*                                                                         *)
(* Strings are sequences of one-character strings; a C buffer is a         *)
(* function from 0..cap-1 to bytes, NUL being the zero byte.               *)
(***************************************************************************)
EXTENDS Integers, Sequences, FiniteSets, TLC

(***************************************************************************)
(* Sizes.  The three UAT_ sizes are the build-time constants of            *)
(* uat_freertos.h scaled down (10, 512 and 512 in the header); the others  *)
(* bound the inputs of a run.                                              *)
(***************************************************************************)
UAT_MAX_CMD_HANDLERS == 2
UAT_RX_BUFFER_SIZE == 6
UAT_TX_BUFFER_SIZE == 6
MaxLines == 2
MaxSendReceive == 2
MaxRegister == 1
MaxTableCalls == 3
UAT_DMA_RX_SIZE == 4
MaxBytes == 8
MaxChars == 6

NUL == "NUL"
NULL == "NULL"
FREE == "free"

\* the dispatcher task and two application tasks.  An application task is a
\* sender (it calls uAT_SendReceive) or a registrar (it registers handlers);
\* the dispatcher task makes the calls its callbacks make
D == "uAT_Task"
AppTasks == {"A1", "A2"}
Tasks == AppTasks \cup {D}
Roles == {[A1 |-> "sender", A2 |-> "sender"], [A1 |-> "sender", A2 |-> "registrar"]}

\* bufLen of the output buffer each task passes to uAT_SendReceive
BufLen(t) == IF t = "A1" THEN 6 ELSE IF t = "A2" THEN 3 ELSE 1

\* where a task is when it is not inside a library call
Home(t) == IF t = D THEN "frame" ELSE "idle"

(***************************************************************************)
(* Inputs.                                                                 *)
(***************************************************************************)
LineOK == <<"O", "K", "\r", "\n">>
LineX == <<"X", "\r", "\n">>
\* a line the framer cut at UAT_RX_BUFFER_SIZE - 1 bytes
LineLong == <<"O", "K", "a", "b", "c">>
Lines == {LineOK, LineX, LineLong}

PfxOK == <<"O", "K">>
PfxO == <<"O">>
PfxX == <<"X">>
PfxLong == <<"O", "K", "a", "b", "c">>
PfxEmpty == <<>>
PfxTooLong == <<"O", "K", "a", "b", "c", "d">>
\* (prefix, handler) pairs given to uAT_RegisterCommand and uAT_RegisterURC
RegisterCommandInputs == {<<PfxOK, "h1">>, <<PfxOK, "hReg">>, <<PfxOK, "hSR">>, <<PfxEmpty, "h1">>}
RegisterURCInputs == {<<PfxO, "h1">>, <<PfxOK, "h1">>, <<PfxEmpty, "h1">>}
UnregisterInputs == {PfxOK, PfxO, PfxX}
Expecteds == {PfxOK, PfxLong, PfxTooLong}

\* commands given to uAT_SendCommand: one that fits the scratch buffer with
\* its CR LF and one that does not
CmdAT == <<"A", "T">>
CmdBig == <<"A", "T", "+", "C">>
Cmds == {CmdAT, CmdBig}

\* user callbacks: h1 and h2 return at once, hReg registers a command from
\* inside the callback, hSR calls uAT_SendReceive from inside the callback
uAT_CommandHandler_SendReceive == "srCallback"
UserHandlers == {"h1", "h2", "hReg", "hSR"}
NoHandler == "none"

\* timeoutTicks: a finite number of ticks.  A wait with a finite timeout may
\* time out whenever what it waits for is not there, and need not: the runs of
\* a call with portMAX_DELAY are the runs of this one in which it never does
Timeouts == {"finite"}

\* the arguments and locals of a call.  log is a history field, not program
\* state: the lines the dispatcher processed for this call's send-receive
\* slot, in order, since the call's setup
NoArg == [cmd |-> <<>>, handler |-> NoHandler, kind |-> "none", tmo |-> "none", res |-> "none",
          log |-> <<>>]

VARIABLES
    cmdHandlers,     \* uat.cmdHandlers[0 .. uat.cmdCount-1]
    inSendReceive,   \* uat.inSendReceive
    srBuffer,        \* uat.srBuffer: the task whose buffer it points to, or NULL
    srBufferSize,    \* uat.srBufferSize
    srBufferPos,     \* uat.srBufferPos
    outBuf,          \* the output buffer of each task
    handlerMutex,    \* uat.handlerMutex: its holder, or FREE
    sendReceiveSem,  \* uat.sendReceiveSem: 0 or 1
    txMutex,         \* uat.txMutex: its holder, or FREE
    txComplete,      \* uat.txComplete: 0 or 1
    txBusy,          \* a DMA transmission from uat.txBuffer is in progress
    txBuffer,        \* uat.txBuffer as a string
    pc,              \* the position of each task
    arg,             \* the arguments and locals of each task's call
    result,          \* the return made by the last step, if it made one: task,
                     \* function, value, and the call's cmd and log
    lineBuf,         \* uAT_Task: lineBuf
    handler,         \* uAT_DispatchCommand: the captured handler
    nLines,          \* lines framed so far
    nSR,             \* uAT_SendReceive calls made by the application tasks so far
    nReg,            \* registrations made by the application tasks so far
    role,            \* what each application task does
    uart_dma_rx_buf, \* the circular DMA receive buffer
    dmaPos,          \* UAT_DMA_RX_SIZE - __HAL_DMA_GET_COUNTER: where the DMA writes next
    dma_last_pos,    \* dma_last_pos
    rxStream,        \* the bytes held by uat.rxStream, oldest first
    dest,            \* xStreamBufferReceiveUntilDelimiter: dest[0 .. maxLen-1]
    total,           \* xStreamBufferReceiveUntilDelimiter: total
    wire,            \* the bytes received by the UART so far, in order
    seen,            \* how many of them had arrived at the last idle event
    intact,          \* so far every idle event came with fewer than
                     \* UAT_DMA_RX_SIZE new bytes and found room for them
    got,             \* the bytes returned by xStreamBufferReceiveUntilDelimiter so far
    parseArgs,       \* the last call of a function of uat_parser.c: its arguments
    parseRet         \* what that call returned and what it left in its outputs

vars == <<cmdHandlers, inSendReceive, srBuffer, srBufferSize, srBufferPos, outBuf,
          handlerMutex, sendReceiveSem, txMutex, txComplete, txBusy, txBuffer,
          pc, arg, result, lineBuf, handler, nLines, nSR, nReg, role,
          uart_dma_rx_buf, dmaPos, dma_last_pos, rxStream, dest, total, wire, seen,
          intact, got, parseArgs, parseRet>>

uatVars == <<cmdHandlers, inSendReceive, srBuffer, srBufferSize, srBufferPos>>
txVars == <<txMutex, txComplete, txBusy, txBuffer>>
taskVars == <<lineBuf, handler, nLines>>
rxVars == <<uart_dma_rx_buf, dmaPos, dma_last_pos, rxStream, dest, total, wire, seen,
            intact, got>>
parseVars == <<parseArgs, parseRet>>
callVars == <<nSR, nReg, role, rxVars, parseVars>>

(***************************************************************************)
(* C library helpers.                                                      *)
(***************************************************************************)
\* memset(buf, 0, n) of a fresh n-byte buffer
Zeroed(n) == [k \in 0 .. n - 1 |-> NUL]

\* the C string held in buf: the bytes before the first NUL
RECURSIVE CStrFrom(_, _)
CStrFrom(buf, k) ==
    IF k \notin DOMAIN buf \/ buf[k] = NUL THEN <<>>
    ELSE <<buf[k]>> \o CStrFrom(buf, k + 1)

CStr(buf) == CStrFrom(buf, 0)

\* strncmp(s, cmd, n) == 0 for NUL-terminated s and cmd with n = strlen(cmd):
\* compare byte by byte, the NUL that ends a shorter s differs from cmd's byte
RECURSIVE StrNCmpEq(_, _, _, _)
StrNCmpEq(s, cmd, n, i) ==
    IF i > n THEN TRUE
    ELSE IF i > Len(s) THEN FALSE
    ELSE IF s[i] # cmd[i] THEN FALSE
    ELSE StrNCmpEq(s, cmd, n, i + 1)

Min(a, b) == IF a < b THEN a ELSE b

\* the first n elements of s
Take(s, n) == SubSeq(s, 1, Min(n, Len(s)))

(***************************************************************************)
(* The handler table and the send-receive slot as one value, so that the   *)
(* functions that work on them are operators from state to state.          *)
(***************************************************************************)
Uat == [cmdHandlers |-> cmdHandlers, inSendReceive |-> inSendReceive,
        srBuffer |-> srBuffer, srBufferSize |-> srBufferSize,
        srBufferPos |-> srBufferPos]

SetUat(u) ==
    /\ cmdHandlers' = u.cmdHandlers
    /\ inSendReceive' = u.inSendReceive
    /\ srBuffer' = u.srBuffer
    /\ srBufferSize' = u.srBufferSize
    /\ srBufferPos' = u.srBufferPos

Entry(cmd, h) == [command |-> cmd, handler |-> h]

\* the loop "for i < cmdCount: if strcmp(cmdHandlers[i].command, cmd) == 0":
\* the first index (from 1) whose command equals cmd, or 0
RECURSIVE FindCommand(_, _, _)
FindCommand(tbl, cmd, i) ==
    IF i > Len(tbl) THEN 0
    ELSE IF tbl[i].command = cmd THEN i
    ELSE FindCommand(tbl, cmd, i + 1)

\* "for j = i; j < cmdCount - 1: cmdHandlers[j] = cmdHandlers[j + 1]; cmdCount--"
ShiftDown(tbl, i) ==
    SubSeq(tbl, 1, i - 1) \o SubSeq(tbl, i + 1, Len(tbl))

\* the search for an existing entry left out: every call appends
RegisterCommandBody_NoUpdate(tbl, cmd, h) ==
    IF Len(tbl) < UAT_MAX_CMD_HANDLERS
    THEN [tbl |-> Append(tbl, Entry(cmd, h)), res |-> "OK"]
    ELSE [tbl |-> tbl, res |-> "RESOURCE"]

\* the body of uAT_RegisterCommand between take and give of handlerMutex
RegisterCommandBody(tbl, cmd, h) ==
    LET i == FindCommand(tbl, cmd, 1) IN
    IF i # 0 THEN [tbl |-> [tbl EXCEPT ![i].handler = h], res |-> "OK"]
    ELSE IF Len(tbl) < UAT_MAX_CMD_HANDLERS
         THEN [tbl |-> Append(tbl, Entry(cmd, h)), res |-> "OK"]
         ELSE [tbl |-> tbl, res |-> "RESOURCE"]

\* the entry put at the end of the table instead of at index 0
RegisterURCBody_Append(tbl, cmd, h) ==
    LET i == FindCommand(tbl, cmd, 1)
        t1 == IF i # 0 THEN ShiftDown(tbl, i) ELSE tbl
    IN  IF Len(t1) < UAT_MAX_CMD_HANDLERS
        THEN [tbl |-> Append(t1, Entry(cmd, h)), res |-> "OK"]
        ELSE [tbl |-> t1, res |-> "RESOURCE"]

\* the body of uAT_RegisterURC between take and give of handlerMutex
RegisterURCBody(tbl, cmd, h) ==
    LET i == FindCommand(tbl, cmd, 1)
        t1 == IF i # 0 THEN ShiftDown(tbl, i) ELSE tbl
    IN  IF Len(t1) < UAT_MAX_CMD_HANDLERS
        THEN [tbl |-> <<Entry(cmd, h)>> \o t1, res |-> "OK"]
        ELSE [tbl |-> t1, res |-> "RESOURCE"]

\* the shift left out: the last entry is cleared whichever entry matched
uAT_UnregisterCommand_DropLast(tbl, cmd) ==
    LET i == FindCommand(tbl, cmd, 1) IN
    IF i # 0 THEN [tbl |-> SubSeq(tbl, 1, Len(tbl) - 1), res |-> "OK"]
    ELSE [tbl |-> tbl, res |-> "NOT_FOUND"]

\* uAT_UnregisterCommand(cmd) on the table tbl: the search, the shift of the
\* entries behind the one found, the clearing of the last entry and cmdCount--
uAT_UnregisterCommand(tbl, cmd) ==
    LET i == FindCommand(tbl, cmd, 1) IN
    IF i # 0 THEN [tbl |-> ShiftDown(tbl, i), res |-> "OK"]
    ELSE [tbl |-> tbl, res |-> "NOT_FOUND"]

\* the append left out: the line is not in the buffer when it is dispatched
uAT_AppendToResponseBuffer_Skip(u, buf, data, len) ==
    [u |-> u, buf |-> buf, ok |-> FALSE]

\* the append without the limit to the space left
uAT_AppendToResponseBuffer_NoLimit(u, buf, data, len) ==
    IF len = 0 \/ ~u.inSendReceive \/ u.srBuffer = NULL
    THEN [u |-> u, buf |-> buf, ok |-> FALSE]
    ELSE [u |-> [u EXCEPT !.srBufferPos = u.srBufferPos + len],
          buf |-> [k \in DOMAIN buf |->
                     IF k >= u.srBufferPos /\ k < u.srBufferPos + len
                     THEN data[k - u.srBufferPos + 1]
                     ELSE IF k = u.srBufferPos + len THEN NUL
                     ELSE buf[k]],
          ok |-> TRUE]

\* uAT_AppendToResponseBuffer(data, len) on slot u and the buffer buf that
\* u.srBuffer points to
uAT_AppendToResponseBuffer(u, buf, data, len) ==
    IF len = 0 THEN [u |-> u, buf |-> buf, ok |-> FALSE]
    ELSE IF ~u.inSendReceive \/ u.srBuffer = NULL
            \/ u.srBufferPos >= u.srBufferSize - 1
    THEN [u |-> u, buf |-> buf, ok |-> FALSE]
    ELSE LET spaceLeft == u.srBufferSize - u.srBufferPos - 1
             n == IF len > spaceLeft THEN spaceLeft ELSE len
             pos == u.srBufferPos
         IN  IF n > 0
             THEN [u |-> [u EXCEPT !.srBufferPos = pos + n],
                   buf |-> [k \in DOMAIN buf |->
                              IF k >= pos /\ k < pos + n THEN data[k - pos + 1]
                              ELSE IF k = pos + n THEN NUL
                              ELSE buf[k]],
                   ok |-> TRUE]
             ELSE [u |-> u, buf |-> buf, ok |-> FALSE]

\* the entry put in front of the table instead of at its end
uAT_SetupSendReceiveState_Front(u, expected, t, bufLen) ==
    IF Len(u.cmdHandlers) < UAT_MAX_CMD_HANDLERS
    THEN [u |-> [cmdHandlers |-> <<Entry(expected, "srCallback")>> \o u.cmdHandlers,
                 inSendReceive |-> TRUE, srBuffer |-> t,
                 srBufferSize |-> bufLen, srBufferPos |-> 0],
          res |-> "OK"]
    ELSE [u |-> [u EXCEPT !.inSendReceive = FALSE, !.srBuffer = NULL,
                          !.srBufferSize = 0, !.srBufferPos = 0],
          res |-> "RESOURCE"]

\* uAT_SetupSendReceiveState(expected, outBuf, bufLen), outBuf being the
\* buffer of task t; the memset of outBuf is done by the calling action
uAT_SetupSendReceiveState(u, expected, t, bufLen) ==
    IF Len(u.cmdHandlers) < UAT_MAX_CMD_HANDLERS
    THEN [u |-> [cmdHandlers |-> Append(u.cmdHandlers,
                                        Entry(expected, uAT_CommandHandler_SendReceive)),
                 inSendReceive |-> TRUE, srBuffer |-> t,
                 srBufferSize |-> bufLen, srBufferPos |-> 0],
          res |-> "OK"]
    ELSE [u |-> [u EXCEPT !.inSendReceive = FALSE, !.srBuffer = NULL,
                          !.srBufferSize = 0, !.srBufferPos = 0],
          res |-> "RESOURCE"]

\* uAT_CleanupSendReceiveState(expected)
uAT_CleanupSendReceiveState(u, expected) ==
    [cmdHandlers |-> uAT_UnregisterCommand(u.cmdHandlers, expected).tbl,
     inSendReceive |-> FALSE, srBuffer |-> NULL,
     srBufferSize |-> 0, srBufferPos |-> 0]

\* safe_line of uAT_DispatchCommand: the line cut to UAT_RX_BUFFER_SIZE - 2
\* bytes when it has UAT_RX_BUFFER_SIZE - 1 bytes or more
SafeLine(line, len) ==
    IF len >= UAT_RX_BUFFER_SIZE - 1
    THEN SubSeq(line, 1, UAT_RX_BUFFER_SIZE - 2)
    ELSE SubSeq(line, 1, len)

\* a skip of spaces and horizontal tabs
RECURSIVE SkipSpaces_AndTabs(_, _)
SkipSpaces_AndTabs(s, i) ==
    IF i <= Len(s) /\ s[i] \in {" ", "\t"} THEN SkipSpaces_AndTabs(s, i + 1) ELSE i

\* "while (*args == ' ') args++": the index of the first byte at or after i
\* that is not a space
RECURSIVE SkipSpaces(_, _)
SkipSpaces(s, i) ==
    IF i <= Len(s) /\ s[i] = " " THEN SkipSpaces(s, i + 1) ELSE i

\* the scan loop without the xSemaphoreGive before the handler is called
RECURSIVE DispatchScan_NoGive(_, _, _)
DispatchScan_NoGive(tbl, safe, i) ==
    IF i > Len(tbl) THEN [found |-> FALSE, gave |-> FALSE, handler |-> NoHandler, args |-> <<>>]
    ELSE IF Len(tbl[i].command) # 0 /\ StrNCmpEq(safe, tbl[i].command, Len(tbl[i].command), 1)
    THEN [found |-> TRUE, gave |-> FALSE, handler |-> tbl[i].handler, args |-> <<>>]
    ELSE DispatchScan_NoGive(tbl, safe, i + 1)

\* the scan loop of uAT_DispatchCommand from index i
RECURSIVE DispatchScan(_, _, _)
DispatchScan(tbl, safe, i) ==
    IF i > Len(tbl) THEN [found |-> FALSE, gave |-> FALSE, handler |-> NoHandler, args |-> <<>>]
    ELSE LET cmd == tbl[i].command
             cmdLen == Len(cmd)
         IN  IF cmdLen = 0 THEN DispatchScan(tbl, safe, i + 1)
             ELSE IF StrNCmpEq(safe, cmd, cmdLen, 1)
             THEN IF tbl[i].handler = NoHandler
                  THEN [found |-> FALSE, gave |-> TRUE, handler |-> NoHandler, args |-> <<>>]
                  ELSE [found |-> TRUE, gave |-> TRUE, handler |-> tbl[i].handler,
                        args |-> SubSeq(safe, SkipSpaces(safe, cmdLen + 1), Len(safe))]
             ELSE DispatchScan(tbl, safe, i + 1)

\* uAT_DispatchCommand(line, len): found is its return value, gave tells
\* whether it released handlerMutex, handler is the callback it goes on to call
uAT_DispatchCommand(tbl, line, len) ==
    IF len = 0 \/ len >= UAT_RX_BUFFER_SIZE
    THEN [found |-> FALSE, gave |-> FALSE, handler |-> NoHandler, args |-> <<>>]
    ELSE DispatchScan(tbl, SafeLine(line, len), 1)

(***************************************************************************)
(* Initial state: uAT_Init has returned UAT_OK, no task is in a call.      *)
(***************************************************************************)
\* the receive path after uAT_Init: the DMA buffer is a zeroed static array,
\* dma_last_pos is 0, the stream buffer is empty
RxInit ==
    /\ uart_dma_rx_buf = [i \in 0 .. UAT_DMA_RX_SIZE - 1 |-> 0]
    /\ dmaPos = 0
    /\ dma_last_pos = 0
    /\ rxStream = <<>>
    /\ dest = Zeroed(UAT_RX_BUFFER_SIZE)
    /\ total = 0
    /\ wire = <<>>
    /\ seen = 0
    /\ intact = TRUE
    /\ got = <<>>

\* no function of uat_parser.c has been called
NoParseArgs == [fn |-> "none"]
NoParseRet == [code |-> "none"]

ParseInit ==
    /\ parseArgs = NoParseArgs
    /\ parseRet = NoParseRet

NoResult == [task |-> "none", op |-> "none", code |-> "none", cmd |-> <<>>, log |-> <<>>]

Init ==
    /\ cmdHandlers = <<>>
    /\ inSendReceive = FALSE
    /\ srBuffer = NULL
    /\ srBufferSize = 0
    /\ srBufferPos = 0
    /\ outBuf = [t \in Tasks |-> Zeroed(BufLen(t))]
    /\ handlerMutex = FREE
    /\ sendReceiveSem = 0
    /\ txMutex = FREE
    /\ txComplete = 0
    /\ txBusy = FALSE
    /\ txBuffer = <<>>
    /\ pc = [t \in Tasks |-> Home(t)]
    /\ arg = [t \in Tasks |-> NoArg]
    /\ result = NoResult
    /\ lineBuf = <<>>
    /\ handler = NoHandler
    /\ nLines = 0
    /\ nSR = 0
    /\ nReg = 0
    /\ role \in Roles
    /\ RxInit
    /\ ParseInit

\* task t's call of op returns code
Return(t, op, code) ==
    /\ pc' = [pc EXCEPT ![t] = Home(t)]
    /\ arg' = [arg EXCEPT ![t] = NoArg]
    /\ result' = [task |-> t, op |-> op, code |-> code, cmd |-> arg[t].cmd, log |-> arg[t].log]

Goto(t, label) == pc' = [pc EXCEPT ![t] = label]

(***************************************************************************)
(* uAT_RegisterCommand and uAT_RegisterURC.                                *)
(***************************************************************************)
\* the argument checks, up to the xSemaphoreTake
RegisterEnter(t, kind, cmd, h) ==
    /\ IF Len(cmd) = 0 \/ Len(cmd) >= UAT_RX_BUFFER_SIZE
       THEN Return(t, kind, "INVALID_ARG")
       ELSE /\ Goto(t, "reg_take")
            /\ arg' = [arg EXCEPT ![t] = [NoArg EXCEPT !.cmd = cmd, !.handler = h, !.kind = kind]]
            /\ result' = NoResult

\* the number of table calls made in a run: a task that works on the table
\* only makes MaxTableCalls of them, a task that registers and unregisters
\* makes one call more than a task that registers
CallBudget(t) ==
    IF role[t] = "table" THEN MaxTableCalls
    ELSE IF role[t] = "unregistrar" THEN MaxRegister + 1
    ELSE MaxRegister

uAT_RegisterCommand_Call(t) ==
    /\ pc[t] = "idle"
    /\ role[t] \in {"registrar", "table", "unregistrar"}
    /\ nReg < CallBudget(t)
    /\ nReg' = nReg + 1
    /\ UNCHANGED <<nSR, role, parseVars, rxVars>>
    /\ \E in \in RegisterCommandInputs :
           RegisterEnter(t, "uAT_RegisterCommand", in[1], in[2])
    /\ UNCHANGED <<uatVars, outBuf, handlerMutex, sendReceiveSem, txVars, taskVars>>

uAT_RegisterURC_Call(t) ==
    /\ pc[t] = "idle"
    /\ role[t] \in {"registrar", "urc", "table", "unregistrar"}
    /\ nReg < CallBudget(t)
    /\ nReg' = nReg + 1
    /\ UNCHANGED <<nSR, role, parseVars, rxVars>>
    /\ \E in \in RegisterURCInputs :
           RegisterEnter(t, "uAT_RegisterURC", in[1], in[2])
    /\ UNCHANGED <<uatVars, outBuf, handlerMutex, sendReceiveSem, txVars, taskVars>>

\* xSemaphoreTake(uat.handlerMutex, portMAX_DELAY)
Register_Take(t) ==
    /\ pc[t] = "reg_take"
    /\ handlerMutex = FREE
    /\ handlerMutex' = t
    /\ Goto(t, "reg_crit")
    /\ UNCHANGED <<uatVars, outBuf, sendReceiveSem, txVars, taskVars, arg, callVars>>
    /\ result' = NoResult

uAT_RegisterCommand_Crit(t) ==
    /\ pc[t] = "reg_crit"
    /\ arg[t].kind = "uAT_RegisterCommand"
    /\ LET r == RegisterCommandBody(cmdHandlers, arg[t].cmd, arg[t].handler) IN
           /\ cmdHandlers' = r.tbl
           /\ Return(t, "uAT_RegisterCommand", r.res)
    /\ handlerMutex' = FREE
    /\ UNCHANGED <<inSendReceive, srBuffer, srBufferSize, srBufferPos, outBuf,
                   sendReceiveSem, txVars, taskVars, callVars>>

uAT_RegisterURC_Crit(t) ==
    /\ pc[t] = "reg_crit"
    /\ arg[t].kind = "uAT_RegisterURC"
    /\ LET r == RegisterURCBody(cmdHandlers, arg[t].cmd, arg[t].handler) IN
           /\ cmdHandlers' = r.tbl
           /\ Return(t, "uAT_RegisterURC", r.res)
    /\ handlerMutex' = FREE
    /\ UNCHANGED <<inSendReceive, srBuffer, srBufferSize, srBufferPos, outBuf,
                   sendReceiveSem, txVars, taskVars, callVars>>

\* uAT_UnregisterCommand, from its call to its return: it takes no mutex and
\* never blocks
uAT_UnregisterCommand_Call(t) ==
    /\ pc[t] = "idle"
    /\ role[t] \in {"table", "unregistrar"}
    /\ nReg < CallBudget(t)
    /\ nReg' = nReg + 1
    /\ \E cmd \in UnregisterInputs :
        LET r == uAT_UnregisterCommand(cmdHandlers, cmd) IN
        /\ cmdHandlers' = r.tbl
        /\ result' = [task |-> t, op |-> "uAT_UnregisterCommand", code |-> r.res,
                      cmd |-> cmd, log |-> <<>>]
    /\ UNCHANGED <<inSendReceive, srBuffer, srBufferSize, srBufferPos, outBuf, handlerMutex,
                   sendReceiveSem, txVars, taskVars, pc, arg, nSR, role, parseVars, rxVars>>

(***************************************************************************)
(* uAT_SendCommand, called by a task or from uAT_SendReceive.              *)
(***************************************************************************)
CRLF == <<"\r", "\n">>

\* "result != UAT_OK" never tested: uAT_SendReceive waits for the response
\* whatever uAT_SendCommand returned
SendCommandReturn_Ignore(t, res) ==
    IF arg[t].kind = "uAT_SendReceive"
    THEN result' = NoResult /\ Goto(t, "sr_wait") /\ UNCHANGED arg
    ELSE Return(t, "uAT_SendCommand", res)

\* uAT_SendCommand returns res: to uAT_SendReceive when that called it
\* (step 2 of uAT_SendReceive), else to the task
SendCommandReturn(t, res) ==
    IF arg[t].kind = "uAT_SendReceive"
    THEN /\ result' = NoResult
         /\ IF res = "OK"
            THEN Goto(t, "sr_wait") /\ UNCHANGED arg
            ELSE /\ Goto(t, "sr_fclean")
                 /\ arg' = [arg EXCEPT ![t].res = "SEND_FAIL"]
    ELSE Return(t, "uAT_SendCommand", res)

uAT_SendCommand_Call(t) ==
    /\ pc[t] = "idle"
    /\ role[t] = "sender"
    /\ Goto(t, "tx_take")
    /\ arg' = [arg EXCEPT ![t] = [NoArg EXCEPT !.kind = "uAT_SendCommand"]]
    /\ UNCHANGED <<uatVars, outBuf, handlerMutex, sendReceiveSem, txVars, taskVars, callVars>>
    /\ result' = NoResult

\* xSemaphoreTake(uat.txMutex, 500 ms) times out
uAT_SendCommand_Busy(t) ==
    /\ pc[t] = "tx_take"
    /\ txMutex # FREE
    /\ SendCommandReturn(t, "BUSY")
    /\ UNCHANGED <<uatVars, outBuf, handlerMutex, sendReceiveSem, txVars, taskVars, callVars>>

\* take txMutex, snprintf into txBuffer, HAL_UART_Transmit_DMA; cmd is the
\* argument of the call, first read here (uAT_SendReceive is given commands
\* that fit); the HAL refuses a transmission while one is in progress and may
\* fail otherwise
uAT_SendCommand_Start(t) ==
    /\ pc[t] = "tx_take"
    /\ txMutex = FREE
    /\ \E cmd \in IF arg[t].kind = "uAT_SendReceive" THEN {CmdAT} ELSE Cmds, halOK \in BOOLEAN :
        LET len == Len(cmd) + 2 IN
        /\ txBuffer' = Take(cmd \o CRLF, UAT_TX_BUFFER_SIZE - 1)
        /\ IF len <= 0 \/ len >= UAT_TX_BUFFER_SIZE
           THEN /\ halOK
                /\ SendCommandReturn(t, "INVALID_ARG")
                /\ UNCHANGED <<txMutex, txBusy>>
           ELSE IF halOK /\ ~txBusy
           THEN /\ txBusy' = TRUE
                /\ txMutex' = t
                /\ Goto(t, "tx_wait")
                /\ UNCHANGED <<arg>>
                /\ result' = NoResult
           ELSE /\ SendCommandReturn(t, "SEND_FAIL")
                /\ UNCHANGED <<txMutex, txBusy>>
    /\ UNCHANGED <<uatVars, outBuf, handlerMutex, sendReceiveSem, txComplete, taskVars, callVars>>

\* xSemaphoreTake(uat.txComplete, 1000 ms) succeeds
uAT_SendCommand_Done(t) ==
    /\ pc[t] = "tx_wait"
    /\ txComplete = 1
    /\ txComplete' = 0
    /\ txMutex' = FREE
    /\ SendCommandReturn(t, "OK")
    /\ UNCHANGED <<uatVars, outBuf, handlerMutex, sendReceiveSem, txBusy, txBuffer, taskVars, callVars>>

\* the timeout of the wait for txComplete without the xSemaphoreGive
uAT_SendCommand_Timeout_NoGive(t) ==
    /\ pc[t] = "tx_wait"
    /\ txComplete = 0
    /\ SendCommandReturn(t, "TIMEOUT")
    /\ UNCHANGED <<uatVars, outBuf, handlerMutex, sendReceiveSem, txVars, taskVars, callVars>>

\* xSemaphoreTake(uat.txComplete, 1000 ms) times out
uAT_SendCommand_Timeout(t) ==
    /\ pc[t] = "tx_wait"
    /\ txComplete = 0
    /\ txMutex' = FREE
    /\ SendCommandReturn(t, "TIMEOUT")
    /\ UNCHANGED <<uatVars, outBuf, handlerMutex, sendReceiveSem, txComplete, txBusy, txBuffer, taskVars, callVars>>

\* the TX-complete interrupt of the transmission in progress
HAL_UART_TxCpltCallback ==
    /\ txBusy
    /\ txBusy' = FALSE
    /\ txComplete' = 1
    /\ UNCHANGED <<uatVars, outBuf, handlerMutex, sendReceiveSem, txMutex, txBuffer, pc, arg, taskVars, callVars>>
    /\ result' = NoResult

(***************************************************************************)
(* uAT_SendReceive.                                                        *)
(***************************************************************************)
\* the argument checks and the first memset, up to the xSemaphoreTake
SendReceiveEnter(t, expected, tmo) ==
    IF Len(expected) >= UAT_RX_BUFFER_SIZE
    THEN /\ Return(t, "uAT_SendReceive", "INVALID_ARG")
         /\ UNCHANGED outBuf
    ELSE /\ outBuf' = [outBuf EXCEPT ![t] = Zeroed(BufLen(t))]
         /\ Goto(t, "sr_take")
         /\ arg' = [arg EXCEPT ![t] = [NoArg EXCEPT !.cmd = expected, !.tmo = tmo,
                                                   !.kind = "uAT_SendReceive"]]
         /\ result' = NoResult

uAT_SendReceive_Call(t) ==
    /\ pc[t] = "idle"
    /\ role[t] = "sender"
    /\ nSR < MaxSendReceive
    /\ nSR' = nSR + 1
    /\ UNCHANGED <<nReg, role, parseVars, rxVars>>
    /\ \E expected \in Expecteds, tmo \in Timeouts : SendReceiveEnter(t, expected, tmo)
    /\ UNCHANGED <<uatVars, handlerMutex, sendReceiveSem, txVars, taskVars>>

\* 1) xSemaphoreTake(uat.handlerMutex, timeoutTicks) succeeds
uAT_SendReceive_Take(t) ==
    /\ pc[t] = "sr_take"
    /\ handlerMutex = FREE
    /\ handlerMutex' = t
    /\ Goto(t, "sr_setup")
    /\ UNCHANGED <<uatVars, outBuf, sendReceiveSem, txVars, taskVars, arg, callVars>>
    /\ result' = NoResult

\* 1) xSemaphoreTake(uat.handlerMutex, timeoutTicks) times out
uAT_SendReceive_TakeTimeout(t) ==
    /\ pc[t] = "sr_take"
    /\ handlerMutex # FREE
    /\ arg[t].tmo = "finite"
    /\ Return(t, "uAT_SendReceive", "BUSY")
    /\ UNCHANGED <<uatVars, outBuf, handlerMutex, sendReceiveSem, txVars, taskVars, callVars>>

\* the check left out: a second call sets the slot up over the first
SlotNeverBusy(u) == FALSE

\* "if (uat.inSendReceive)": a send-receive is already in progress
SlotBusy(u) == u.inSendReceive

\* under handlerMutex: the inSendReceive check and uAT_SetupSendReceiveState
uAT_SendReceive_Setup(t) ==
    /\ pc[t] = "sr_setup"
    /\ handlerMutex' = FREE
    /\ IF SlotBusy(Uat)
       THEN /\ Return(t, "uAT_SendReceive", "BUSY")
            /\ UNCHANGED <<uatVars, outBuf>>
       ELSE LET r == uAT_SetupSendReceiveState(Uat, arg[t].cmd, t, BufLen(t)) IN
            /\ SetUat(r.u)
            /\ outBuf' = [outBuf EXCEPT ![t] = Zeroed(BufLen(t))]
            /\ IF r.res # "OK"
               THEN Return(t, "uAT_SendReceive", "INT")
               ELSE Goto(t, "tx_take") /\ UNCHANGED arg /\ result' = NoResult
    /\ UNCHANGED <<sendReceiveSem, txVars, taskVars, callVars>>

\* 3) xSemaphoreTake(uat.sendReceiveSem, timeoutTicks) succeeds
uAT_SendReceive_Matched(t) ==
    /\ pc[t] = "sr_wait"
    /\ sendReceiveSem = 1
    /\ sendReceiveSem' = 0
    /\ Goto(t, "sr_clean")
    /\ arg' = [arg EXCEPT ![t].res = "OK"]
    /\ UNCHANGED <<uatVars, outBuf, handlerMutex, txVars, taskVars, callVars>>
    /\ result' = NoResult

\* 3) xSemaphoreTake(uat.sendReceiveSem, timeoutTicks) times out
uAT_SendReceive_WaitTimeout(t) ==
    /\ pc[t] = "sr_wait"
    /\ sendReceiveSem = 0
    /\ arg[t].tmo = "finite"
    /\ Goto(t, "sr_clean")
    /\ arg' = [arg EXCEPT ![t].res = "TIMEOUT"]
    /\ UNCHANGED <<uatVars, outBuf, handlerMutex, sendReceiveSem, txVars, taskVars, callVars>>
    /\ result' = NoResult

\* uAT_SafeCleanupSendReceiveState: the xSemaphoreTake succeeds; the timeout
\* is portMAX_DELAY at sr_clean and timeoutTicks at sr_fclean
uAT_SafeCleanupSendReceiveState_Take(t) ==
    /\ pc[t] \in {"sr_clean", "sr_fclean"}
    /\ handlerMutex = FREE
    /\ handlerMutex' = t
    /\ Goto(t, "sr_cleanup")
    /\ UNCHANGED <<uatVars, outBuf, sendReceiveSem, txVars, taskVars, arg, callVars>>
    /\ result' = NoResult

\* uAT_SafeCleanupSendReceiveState(expected, timeoutTicks) after a failed
\* send: the xSemaphoreTake times out, it returns false and uAT_SendReceive
\* returns UAT_ERR_SEND_FAIL
uAT_SafeCleanupSendReceiveState_Timeout(t) ==
    /\ pc[t] = "sr_fclean"
    /\ handlerMutex # FREE
    /\ arg[t].tmo = "finite"
    /\ Return(t, "uAT_SendReceive", arg[t].res)
    /\ UNCHANGED <<uatVars, outBuf, handlerMutex, sendReceiveSem, txVars, taskVars, callVars>>

\* uAT_CleanupSendReceiveState under handlerMutex, the give, and the return
\* of uAT_SendReceive
uAT_SafeCleanupSendReceiveState_Crit(t) ==
    /\ pc[t] = "sr_cleanup"
    /\ SetUat(uAT_CleanupSendReceiveState(Uat, arg[t].cmd))
    /\ handlerMutex' = FREE
    /\ Return(t, "uAT_SendReceive", arg[t].res)
    /\ UNCHANGED <<outBuf, sendReceiveSem, txVars, taskVars, callVars>>

(***************************************************************************)
(* uAT_Task: the dispatcher loop.                                          *)
(***************************************************************************)
\* xStreamBufferReceiveUntilDelimiter returns a line of len > 0 bytes
uAT_Task_Frame ==
    /\ pc[D] = "frame"
    /\ nLines < MaxLines
    /\ nLines' = nLines + 1
    /\ \E line \in Lines : lineBuf' = line
    /\ Goto(D, "t_take")
    /\ UNCHANGED <<uatVars, outBuf, handlerMutex, sendReceiveSem, txVars, handler, arg, callVars>>
    /\ result' = NoResult

\* xSemaphoreTake(uat.handlerMutex, 100 ms) succeeds, then
\* "if (uat.inSendReceive && uat.srBuffer != NULL) uAT_AppendToResponseBuffer"
uAT_Task_Take ==
    /\ pc[D] = "t_take"
    /\ handlerMutex = FREE
    /\ handlerMutex' = D
    /\ IF inSendReceive /\ srBuffer # NULL
       THEN LET r == uAT_AppendToResponseBuffer(Uat, outBuf[srBuffer], lineBuf, Len(lineBuf)) IN
            /\ SetUat(r.u)
            /\ outBuf' = [outBuf EXCEPT ![srBuffer] = r.buf]
            /\ arg' = IF arg[srBuffer].kind = "uAT_SendReceive"
                      THEN [arg EXCEPT ![srBuffer].log = Append(@, lineBuf)]
                      ELSE arg
       ELSE UNCHANGED <<uatVars, outBuf, arg>>
    /\ Goto(D, "t_dispatch")
    /\ UNCHANGED <<sendReceiveSem, txVars, taskVars, callVars>>
    /\ result' = NoResult

\* a dispatcher that goes on with the line although the take timed out
uAT_Task_TakeTimeout_Dispatch ==
    /\ pc[D] = "t_take"
    /\ handlerMutex # FREE
    /\ Goto(D, "t_dispatch")
    /\ UNCHANGED <<uatVars, outBuf, handlerMutex, sendReceiveSem, txVars, taskVars,
                   arg, callVars>>
    /\ result' = NoResult

\* xSemaphoreTake(uat.handlerMutex, 100 ms) times out: the line is dropped
uAT_Task_TakeTimeout ==
    /\ pc[D] = "t_take"
    /\ handlerMutex # FREE
    /\ lineBuf' = <<>>
    /\ Goto(D, "frame")
    /\ UNCHANGED <<uatVars, outBuf, handlerMutex, sendReceiveSem, txVars, handler, nLines,
                   arg, callVars>>
    /\ result' = NoResult

\* uAT_DispatchCommand up to the xSemaphoreGive, and the give of uAT_Task
\* when it returns false
uAT_Task_Dispatch ==
    /\ pc[D] = "t_dispatch"
    /\ LET r == uAT_DispatchCommand(cmdHandlers, lineBuf, Len(lineBuf)) IN
       IF r.found
       THEN /\ handlerMutex' = IF r.gave THEN FREE ELSE handlerMutex
            /\ handler' = r.handler
            /\ Goto(D, "t_invoke")
            /\ UNCHANGED lineBuf
       ELSE /\ handlerMutex' = FREE
            /\ handler' = NoHandler
            /\ lineBuf' = <<>>
            /\ Goto(D, "frame")
    /\ UNCHANGED <<uatVars, outBuf, sendReceiveSem, txVars, nLines, arg, callVars>>
    /\ result' = NoResult

\* handler(args) where the handler is uAT_CommandHandler_SendReceive
uAT_Task_InvokeSendReceive ==
    /\ pc[D] = "t_invoke"
    /\ handler = uAT_CommandHandler_SendReceive
    /\ sendReceiveSem' = 1
    /\ handler' = NoHandler
    /\ lineBuf' = <<>>
    /\ Goto(D, "frame")
    /\ UNCHANGED <<uatVars, outBuf, handlerMutex, txVars, nLines, arg, callVars>>
    /\ result' = NoResult

\* handler(args) where the handler is a user callback that only returns
uAT_Task_InvokeUser ==
    /\ pc[D] = "t_invoke"
    /\ handler \in {"h1", "h2"}
    /\ handler' = NoHandler
    /\ lineBuf' = <<>>
    /\ Goto(D, "frame")
    /\ UNCHANGED <<uatVars, outBuf, handlerMutex, sendReceiveSem, txVars, nLines, arg, callVars>>
    /\ result' = NoResult

\* handler(args) where the user callback calls uAT_RegisterCommand("X", h2)
uAT_Task_InvokeRegistering ==
    /\ pc[D] = "t_invoke"
    /\ handler = "hReg"
    /\ handler' = NoHandler
    /\ lineBuf' = <<>>
    /\ RegisterEnter(D, "uAT_RegisterCommand", PfxX, "h2")
    /\ UNCHANGED <<uatVars, outBuf, handlerMutex, sendReceiveSem, txVars, nLines, callVars>>

\* handler(args) where the user callback calls uAT_SendReceive with
\* expected "OK" and a finite timeout
uAT_Task_InvokeSendReceiving ==
    /\ pc[D] = "t_invoke"
    /\ handler = "hSR"
    /\ handler' = NoHandler
    /\ lineBuf' = <<>>
    /\ SendReceiveEnter(D, PfxOK, "finite")
    /\ UNCHANGED <<uatVars, handlerMutex, sendReceiveSem, txVars, nLines, callVars>>

(***************************************************************************)
(* The system.                                                             *)
(***************************************************************************)
RegisterCommandCall == \E t \in AppTasks : uAT_RegisterCommand_Call(t)
RegisterURCCall == \E t \in AppTasks : uAT_RegisterURC_Call(t)
RegisterTake == \E t \in Tasks : Register_Take(t)
RegisterCommandCrit == \E t \in Tasks : uAT_RegisterCommand_Crit(t)
RegisterURCCrit == \E t \in Tasks : uAT_RegisterURC_Crit(t)
UnregisterCommandCall == \E t \in AppTasks : uAT_UnregisterCommand_Call(t)
SendCommandCall == \E t \in AppTasks : uAT_SendCommand_Call(t)
SendCommandBusy == \E t \in Tasks : uAT_SendCommand_Busy(t)
SendCommandStart == \E t \in Tasks : uAT_SendCommand_Start(t)
SendCommandDone == \E t \in Tasks : uAT_SendCommand_Done(t)
SendCommandTimeout == \E t \in Tasks : uAT_SendCommand_Timeout(t)
SendReceiveCall == \E t \in AppTasks : uAT_SendReceive_Call(t)
SendReceiveTake == \E t \in Tasks : uAT_SendReceive_Take(t)
SendReceiveTakeTimeout == \E t \in Tasks : uAT_SendReceive_TakeTimeout(t)
SendReceiveSetup == \E t \in Tasks : uAT_SendReceive_Setup(t)
SendReceiveMatched == \E t \in Tasks : uAT_SendReceive_Matched(t)
SendReceiveWaitTimeout == \E t \in Tasks : uAT_SendReceive_WaitTimeout(t)
SafeCleanupTake == \E t \in Tasks : uAT_SafeCleanupSendReceiveState_Take(t)
SafeCleanupTimeout == \E t \in Tasks : uAT_SafeCleanupSendReceiveState_Timeout(t)
SafeCleanupCrit == \E t \in Tasks : uAT_SafeCleanupSendReceiveState_Crit(t)

\* The tasks of this specification send with uAT_SendReceive only.  A call
\* of uAT_SendCommand on its own (SendCommandCall) is not among its steps, and
\* so neither is the timeout on txMutex (SendCommandBusy): with one
\* send-receive in flight at a time, txMutex is free whenever one takes it.
Next ==
    \/ RegisterCommandCall
    \/ RegisterURCCall
    \/ RegisterTake
    \/ RegisterCommandCrit
    \/ RegisterURCCrit
    \/ SendCommandStart
    \/ SendCommandDone
    \/ SendCommandTimeout
    \/ HAL_UART_TxCpltCallback
    \/ SendReceiveCall
    \/ SendReceiveTake
    \/ SendReceiveTakeTimeout
    \/ SendReceiveSetup
    \/ SendReceiveMatched
    \/ SendReceiveWaitTimeout
    \/ SafeCleanupTake
    \/ SafeCleanupTimeout
    \/ SafeCleanupCrit
    \/ uAT_Task_Frame
    \/ uAT_Task_Take
    \/ uAT_Task_TakeTimeout
    \/ uAT_Task_Dispatch
    \/ uAT_Task_InvokeSendReceive
    \/ uAT_Task_InvokeUser
    \/ uAT_Task_InvokeRegistering
    \/ uAT_Task_InvokeSendReceiving

Spec == Init /\ [][Next]_vars

(***************************************************************************)
(* Properties of uAT_SendReceive.                                          *)
(***************************************************************************)
\* task t is inside uAT_SendReceive between its setup and its cleanup
SRInFlight(t) ==
    /\ arg[t].kind = "uAT_SendReceive"
    /\ pc[t] \in {"tx_take", "tx_wait", "sr_wait", "sr_clean", "sr_fclean", "sr_cleanup"}

\* task t is at the inSendReceive check and leaves it with this step
SetupStep(t) == pc[t] = "sr_setup" /\ pc'[t] # "sr_setup"

\* C1: at most one send-receive is in flight.  In every state at most one
\* call is between its setup and its cleanup, and the slot is that call's
\* (active, pointing to its buffer); and a call that reaches the check while
\* another call is between setup and cleanup returns UAT_ERR_BUSY and leaves
\* the slot as it is.
C1_OneInFlight ==
    /\ [](/\ Cardinality({t \in Tasks : SRInFlight(t)}) <= 1
          /\ \A t \in Tasks : SRInFlight(t) => inSendReceive /\ srBuffer = t)
    /\ [][\A t \in Tasks :
            SetupStep(t) /\ (\E o \in Tasks \ {t} : SRInFlight(o))
            => /\ result' = [task |-> t, op |-> "uAT_SendReceive", code |-> "BUSY",
                             cmd |-> arg[t].cmd, log |-> arg[t].log]
               /\ UNCHANGED <<uatVars, outBuf>>]_vars

\* a call is refused at the check while another task's call waits for its
\* response
C1_Witness ==
    /\ result.op = "uAT_SendReceive"
    /\ result.code = "BUSY"
    /\ \E o \in Tasks \ {result.task} : pc[o] = "sr_wait" /\ srBuffer = o
    /\ handlerMutex = FREE

\* line starts with prefix, byte for byte
StartsWith(line, prefix) ==
    Len(prefix) <= Len(line) /\ SubSeq(line, 1, Len(prefix)) = prefix

\* the step just made returned code from a uAT_SendReceive that had set the
\* slot up
SRReturned(codes) == result.op = "uAT_SendReceive" /\ result.code \in codes

\* C2: the setup of a send-receive drains sendReceiveSem, so no signal is
\* pending when the setup has finished; and a call returns UAT_OK only if a
\* line that starts with its expected prefix was dispatched after its own
\* setup.
C2_SetupDrains ==
    /\ [][\A t \in Tasks : SetupStep(t) /\ SRInFlight(t)' => sendReceiveSem' = 0]_vars
    /\ [](SRReturned({"OK"}) =>
             \E i \in 1 .. Len(result.log) : StartsWith(result.log[i], result.cmd))

\* C3: whenever uAT_SendReceive returns UAT_OK, UAT_ERR_TIMEOUT or
\* UAT_ERR_SEND_FAIL, cleanup has run: the slot is inactive and the table
\* holds no entry of the send-receive callback.
C3_CleanupOnReturn ==
    SRReturned({"OK", "TIMEOUT", "SEND_FAIL"}) =>
        /\ ~inSendReceive
        /\ srBuffer = NULL
        /\ \A i \in 1 .. Len(cmdHandlers) :
               cmdHandlers[i].handler # uAT_CommandHandler_SendReceive

(***************************************************************************)
(* Properties of the dispatch.                                             *)
(***************************************************************************)
\* the dispatcher scans the table for lineBuf with this step
DispatchStep == pc[D] = "t_dispatch" /\ pc'[D] # "t_dispatch"

\* the indexes of the entries of tbl whose prefix is not empty and starts text
Matching(tbl, text) ==
    {i \in 1 .. Len(tbl) : tbl[i].command # <<>> /\ StartsWith(text, tbl[i].command)}

\* the handler of the lowest-index entry of tbl whose prefix starts text
FirstMatch(tbl, text) ==
    LET m == Matching(tbl, text) IN
    IF m = {} THEN NoHandler
    ELSE tbl[CHOOSE i \in m : \A j \in m : i <= j].handler

\* what the dispatcher compares of a line: all of it, or its first
\* UAT_RX_BUFFER_SIZE - 2 bytes when it has UAT_RX_BUFFER_SIZE - 1
Compared(line) ==
    IF Len(line) >= UAT_RX_BUFFER_SIZE - 1
    THEN SubSeq(line, 1, UAT_RX_BUFFER_SIZE - 2)
    ELSE line

\* C4 as stated: while a send-receive waits, every dispatched line that starts
\* with its expected prefix goes to the send-receive callback, whatever other
\* entries match the line (stated for the lines the dispatcher compares
\* whole, those of fewer than UAT_RX_BUFFER_SIZE - 1 bytes).
C4_TopPriority ==
    [][\A t \in Tasks :
         /\ DispatchStep
         /\ pc[t] = "sr_wait"
         /\ Len(lineBuf) < UAT_RX_BUFFER_SIZE - 1
         /\ StartsWith(lineBuf, arg[t].cmd)
         => handler' = uAT_CommandHandler_SendReceive]_vars

\* C4 amended: the send-receive entry is installed at the end of the table,
\* behind every entry registered before it; while a send-receive waits, a
\* dispatched line goes to the send-receive callback exactly when the first
\* entry whose prefix starts the compared line is a send-receive entry, and to
\* the earlier entry's handler otherwise; the callback gives sendReceiveSem,
\* and a wait that finds the signal ends with UAT_OK.
C4_AppendedEntry ==
    [][/\ \A t \in Tasks :
            SetupStep(t) /\ SRInFlight(t)'
            => cmdHandlers' = Append(cmdHandlers,
                                     Entry(arg[t].cmd, uAT_CommandHandler_SendReceive))
       /\ \A t \in Tasks :
            DispatchStep /\ pc[t] = "sr_wait"
            => /\ handler' = FirstMatch(cmdHandlers, Compared(lineBuf))
               /\ (pc'[D] = "t_invoke") = (handler' # NoHandler)
       /\ (pc[D] = "t_invoke" /\ pc'[D] # "t_invoke"
              /\ handler = uAT_CommandHandler_SendReceive) => sendReceiveSem' = 1
       /\ \A t \in Tasks :
            pc[t] = "sr_wait" /\ pc'[t] # "sr_wait" /\ sendReceiveSem = 1
            => arg'[t].res = "OK"]_vars

\* a line that starts with the expected prefix of a waiting send-receive has
\* gone to the handler of an entry registered before it
C4_Witness ==
    /\ pc[D] = "t_invoke"
    /\ handler = "h1"
    /\ sendReceiveSem = 0
    /\ \E t \in Tasks :
          /\ pc[t] = "sr_wait"
          /\ StartsWith(lineBuf, arg[t].cmd)
          /\ cmdHandlers[Len(cmdHandlers)] = Entry(arg[t].cmd, uAT_CommandHandler_SendReceive)

\* C5: the dispatcher never holds handlerMutex while a handler runs.  It
\* holds the mutex when it scans the table and captures the callback; when the
\* callback is about to be invoked, and at every wait of a library call the
\* callback makes, the dispatcher task does not hold it.
C5_NoMutexInHandler ==
    /\ pc[D] = "t_dispatch" => handlerMutex = D
    /\ pc[D] = "t_invoke" => handlerMutex # D /\ handler # NoHandler
    /\ pc[D] \in {"reg_take", "sr_take", "tx_take", "tx_wait", "sr_wait", "sr_clean",
                  "sr_fclean"} => handlerMutex # D

\* a user callback is about to be invoked while an application task holds
\* handlerMutex
C5_Witness ==
    /\ pc[D] = "t_invoke"
    /\ handler \in UserHandlers
    /\ handlerMutex \in AppTasks

\* the steps with which task t leaves a critical section of handlerMutex
Releases(t) ==
    \/ uAT_RegisterCommand_Crit(t)
    \/ uAT_RegisterURC_Crit(t)
    \/ uAT_SendReceive_Setup(t)
    \/ uAT_SafeCleanupSendReceiveState_Crit(t)

C7_FirstMatchWins ==
    [][DispatchStep =>
         /\ handler' = FirstMatch(cmdHandlers, lineBuf)
         /\ IF handler' # NoHandler
            THEN pc'[D] = "t_invoke"
            ELSE pc'[D] = "frame" /\ lineBuf' = <<>>]_vars

(***************************************************************************)
(* Properties of the response buffer.                                      *)
(***************************************************************************)
\* bytes a .. b-1 of buf as a string
Bytes(buf, a, b) == [i \in 1 .. (b - a) |-> buf[a + i - 1]]

\* the slot is active and belongs to a call that is between setup and cleanup
SlotOwned == inSendReceive /\ srBuffer # NULL /\ SRInFlight(srBuffer)

\* C8: a line dispatched while the slot is active is appended to the output
\* buffer before its handler is invoked.  When the dispatcher is about to scan
\* the table for a line, no handler is captured yet and the buffer of the
\* call that owns the slot ends with the line, or is full.
C8_AppendBeforeHandler ==
    /\ pc[D] \in {"t_take", "t_dispatch"} => handler = NoHandler
    /\ (pc[D] = "t_dispatch" /\ SlotOwned)
          => \/ srBufferPos = srBufferSize - 1
             \/ /\ srBufferPos >= Len(lineBuf)
                /\ Bytes(outBuf[srBuffer], srBufferPos - Len(lineBuf), srBufferPos) = lineBuf

\* the send-receive callback is about to be invoked and the buffer holds the
\* line that matched
C8_Witness ==
    /\ pc[D] = "t_invoke"
    /\ handler = uAT_CommandHandler_SendReceive
    /\ SlotOwned
    /\ srBufferPos < srBufferSize - 1
    /\ CStr(outBuf[srBuffer]) = lineBuf

\* the dispatcher takes handlerMutex for lineBuf with this step
TakeStep == pc[D] = "t_take" /\ pc'[D] = "t_dispatch"

\* C9: while the slot is active the accumulated length is at most the
\* capacity less one and the byte at that length is the terminator; a line
\* is appended up to the space left, the bytes before it stay, and a line
\* arriving at a full buffer appends nothing.
C9_BufferBounded ==
    /\ []((inSendReceive /\ srBuffer # NULL)
            => /\ srBufferSize = BufLen(srBuffer)
               /\ srBufferPos <= srBufferSize - 1
               /\ outBuf[srBuffer][srBufferPos] = NUL)
    /\ [][(TakeStep /\ inSendReceive /\ srBuffer # NULL)
            => LET n == Min(Len(lineBuf), srBufferSize - 1 - srBufferPos) IN
               /\ srBufferPos' = srBufferPos + n
               /\ Bytes(outBuf'[srBuffer], 0, srBufferPos)
                    = Bytes(outBuf[srBuffer], 0, srBufferPos)
               /\ Bytes(outBuf'[srBuffer], srBufferPos, srBufferPos + n) = Take(lineBuf, n)
               /\ n = 0 => outBuf' = outBuf]_vars

\* a line was cut to the space left: two of its three bytes are in the
\* three-byte buffer
C9_Witness ==
    /\ pc[D] = "t_dispatch"
    /\ lineBuf = LineX
    /\ inSendReceive
    /\ srBufferSize = 3
    /\ srBufferPos = 2
    /\ CStr(outBuf[srBuffer]) = Take(LineX, 2)

\* the strings of seq one after the other
RECURSIVE Flatten(_)
Flatten(seq) == IF seq = <<>> THEN <<>> ELSE Head(seq) \o Flatten(Tail(seq))

\* C10: end to end, with no handler registered by the application.  When
\* uAT_SendReceive returns UAT_OK, a line starting with the expected prefix
\* arrived after its setup, and the output buffer starts with the lines up to
\* the first such line, in arrival order, cut to the capacity less one.
C10_EndToEnd ==
    (SRReturned({"OK"}) /\ \A t \in AppTasks : role[t] = "sender")
    => LET m == {i \in 1 .. Len(result.log) : StartsWith(result.log[i], result.cmd)} IN
       /\ m # {}
       /\ LET k == CHOOSE i \in m : \A j \in m : i <= j IN
          StartsWith(CStr(outBuf[result.task]),
                     Take(Flatten(SubSeq(result.log, 1, k)), BufLen(result.task) - 1))

(***************************************************************************)
(* URCs during a send-receive: the application registers with              *)
(* uAT_RegisterURC only, so the entries of h1 are the URC entries.         *)
(***************************************************************************)
InitURC ==
    /\ cmdHandlers = <<>>
    /\ inSendReceive = FALSE
    /\ srBuffer = NULL
    /\ srBufferSize = 0
    /\ srBufferPos = 0
    /\ outBuf = [t \in Tasks |-> Zeroed(BufLen(t))]
    /\ handlerMutex = FREE
    /\ sendReceiveSem = 0
    /\ txMutex = FREE
    /\ txComplete = 0
    /\ txBusy = FALSE
    /\ txBuffer = <<>>
    /\ pc = [t \in Tasks |-> Home(t)]
    /\ arg = [t \in Tasks |-> NoArg]
    /\ result = NoResult
    /\ lineBuf = <<>>
    /\ handler = NoHandler
    /\ nLines = 0
    /\ nSR = 0
    /\ nReg = 0
    /\ role = [A1 |-> "sender", A2 |-> "urc"]
    /\ RxInit
    /\ ParseInit

NextURC ==
    \/ RegisterURCCall
    \/ RegisterTake
    \/ RegisterURCCrit
    \/ SendCommandStart
    \/ SendCommandDone
    \/ SendCommandTimeout
    \/ HAL_UART_TxCpltCallback
    \/ SendReceiveCall
    \/ SendReceiveTake
    \/ SendReceiveTakeTimeout
    \/ SendReceiveSetup
    \/ SendReceiveMatched
    \/ SendReceiveWaitTimeout
    \/ SafeCleanupTake
    \/ SafeCleanupTimeout
    \/ SafeCleanupCrit
    \/ uAT_Task_Frame
    \/ uAT_Task_Take
    \/ uAT_Task_TakeTimeout
    \/ uAT_Task_Dispatch
    \/ uAT_Task_InvokeSendReceive
    \/ uAT_Task_InvokeUser

SpecURC == InitURC /\ [][NextURC]_vars

\* entry i of the table is a URC entry whose prefix starts the line as the
\* dispatcher compares it
URCMatches(i) ==
    /\ cmdHandlers[i].handler = "h1"
    /\ cmdHandlers[i].command # <<>>
    /\ StartsWith(Compared(lineBuf), cmdHandlers[i].command)

\* C11: a line dispatched while a send-receive is outstanding that matches a
\* registered URC prefix goes to the URC handler, not to the send-receive
\* callback, and its text is in the output buffer of the send-receive (the
\* buffer ends with the line, or is full) when the handler is captured.
C11_URCDuringSendReceive ==
    [][(/\ DispatchStep
        /\ \E t \in Tasks : SRInFlight(t)
        /\ \E i \in 1 .. Len(cmdHandlers) : URCMatches(i))
       => /\ pc'[D] = "t_invoke"
          /\ handler' = "h1"
          /\ SlotOwned
          /\ \/ srBufferPos = srBufferSize - 1
             \/ /\ srBufferPos >= Len(lineBuf)
                /\ Bytes(outBuf[srBuffer], srBufferPos - Len(lineBuf), srBufferPos) = lineBuf]_vars

\* the URC handler is about to be invoked for a line that also starts with
\* the expected prefix of the waiting send-receive, whose buffer holds it
C11_Witness ==
    /\ pc[D] = "t_invoke"
    /\ handler = "h1"
    /\ lineBuf = LineOK
    /\ \E t \in Tasks :
          /\ pc[t] = "sr_wait"
          /\ arg[t].cmd = PfxOK
          /\ CStr(outBuf[t]) = LineOK
    /\ Len(cmdHandlers) = 2
    /\ cmdHandlers[2].handler = uAT_CommandHandler_SendReceive

(***************************************************************************)
(* Termination of uAT_SendReceive.  The scheduler runs every task that is  *)
(* ready: a task inside a call takes its next step, and so does the        *)
(* dispatcher once it has a line.  The calls themselves, the arrival of    *)
(* lines (uAT_Task_Frame) and the TX-complete interrupt are not forced.    *)
(***************************************************************************)
Progress(t) ==
    \/ Register_Take(t)
    \/ uAT_RegisterCommand_Crit(t)
    \/ uAT_RegisterURC_Crit(t)
    \/ uAT_SendCommand_Start(t)
    \/ uAT_SendCommand_Done(t)
    \/ uAT_SendCommand_Timeout(t)
    \/ uAT_SendReceive_Take(t)
    \/ uAT_SendReceive_TakeTimeout(t)
    \/ uAT_SendReceive_Setup(t)
    \/ uAT_SendReceive_Matched(t)
    \/ uAT_SendReceive_WaitTimeout(t)
    \/ uAT_SafeCleanupSendReceiveState_Take(t)
    \/ uAT_SafeCleanupSendReceiveState_Timeout(t)
    \/ uAT_SafeCleanupSendReceiveState_Crit(t)

DispatcherProgress ==
    \/ uAT_Task_Take
    \/ uAT_Task_TakeTimeout
    \/ uAT_Task_Dispatch
    \/ uAT_Task_InvokeSendReceive
    \/ uAT_Task_InvokeUser
    \/ uAT_Task_InvokeRegistering
    \/ uAT_Task_InvokeSendReceiving

Scheduling == WF_vars(DispatcherProgress) /\ \A t \in Tasks : WF_vars(Progress(t))

\* the tasks of SpecURC under this scheduling
SpecLive == InitURC /\ [][NextURC]_vars /\ Scheduling

\* task t is inside a call of uAT_SendReceive
InSendReceive(t) == arg[t].kind = "uAT_SendReceive"

\* no line of the call's log starts with its expected prefix
NoMatchingLine(log, expected) ==
    \A i \in 1 .. Len(log) : ~StartsWith(log[i], expected)

\* C12 as stated: a uAT_SendReceive call that returns after its setup
\* without a line that matches its expected prefix returns UAT_ERR_TIMEOUT.
C12_TimeoutOnly ==
    SRReturned({"OK", "TIMEOUT", "SEND_FAIL"}) /\ NoMatchingLine(result.log, result.cmd)
        => result.code = "TIMEOUT"

\* C12: every uAT_SendReceive call with a finite timeout eventually returns.
\* A call that was set up starts to wait for its response only when
\* uAT_SendCommand returned UAT_OK (txComplete taken) and otherwise goes to
\* its cleanup with UAT_ERR_SEND_FAIL; it leaves the wait only by taking
\* sendReceiveSem (UAT_OK) or by its timeout (UAT_ERR_TIMEOUT), and the call
\* returns the code so chosen.
C12_ReturnsOrTimesOut ==
    /\ \A t \in Tasks : InSendReceive(t) ~> ~InSendReceive(t)
    /\ [][\A t \in Tasks : InSendReceive(t) =>
            /\ pc[t] # "sr_wait" /\ pc'[t] = "sr_wait"
                  => pc[t] = "tx_wait" /\ txComplete = 1
            /\ pc[t] \in {"tx_take", "tx_wait"} /\ pc'[t] \notin {"tx_take", "tx_wait", "sr_wait"}
                  => pc'[t] = "sr_fclean" /\ arg'[t].res = "SEND_FAIL"
            /\ pc[t] = "sr_wait" /\ pc'[t] # "sr_wait"
                  => /\ pc'[t] = "sr_clean"
                     /\ arg'[t].res = IF sendReceiveSem = 1 THEN "OK" ELSE "TIMEOUT"
                     /\ sendReceiveSem' = 0
            /\ pc[t] \in {"sr_fclean", "sr_cleanup"} /\ ~InSendReceive(t)'
                  => result'.task = t /\ result'.code = arg[t].res]_vars

\* a call returns UAT_ERR_TIMEOUT after a transmission that completed and a
\* wait during which no line arrived for it
C12_Witness ==
    /\ SRReturned({"TIMEOUT"})
    /\ result.log = <<>>
    /\ txBuffer = CmdAT \o CRLF
    /\ ~txBusy

(***************************************************************************)
(* The table operations.  One task registers and unregisters while the     *)
(* other sends with uAT_SendReceive; no line arrives, so every wait for a  *)
(* response ends in its timeout.                                           *)
(***************************************************************************)
InitTbl ==
    /\ cmdHandlers = <<>>
    /\ inSendReceive = FALSE
    /\ srBuffer = NULL
    /\ srBufferSize = 0
    /\ srBufferPos = 0
    /\ outBuf = [t \in Tasks |-> Zeroed(BufLen(t))]
    /\ handlerMutex = FREE
    /\ sendReceiveSem = 0
    /\ txMutex = FREE
    /\ txComplete = 0
    /\ txBusy = FALSE
    /\ txBuffer = <<>>
    /\ pc = [t \in Tasks |-> Home(t)]
    /\ arg = [t \in Tasks |-> NoArg]
    /\ result = NoResult
    /\ lineBuf = <<>>
    /\ handler = NoHandler
    /\ nLines = 0
    /\ nSR = 0
    /\ nReg = 0
    /\ role = [A1 |-> "table", A2 |-> "sender"]
    /\ RxInit
    /\ ParseInit

NextTbl ==
    \/ RegisterCommandCall
    \/ RegisterURCCall
    \/ RegisterTake
    \/ RegisterCommandCrit
    \/ RegisterURCCrit
    \/ UnregisterCommandCall
    \/ SendCommandStart
    \/ SendCommandDone
    \/ SendCommandTimeout
    \/ HAL_UART_TxCpltCallback
    \/ SendReceiveCall
    \/ SendReceiveTake
    \/ SendReceiveTakeTimeout
    \/ SendReceiveSetup
    \/ SendReceiveWaitTimeout
    \/ SafeCleanupTake
    \/ SafeCleanupTimeout
    \/ SafeCleanupCrit

SpecTbl == InitTbl /\ [][NextTbl]_vars

\* the steps in which a table call works on the table
RegisterCommandStep(t) ==
    pc[t] = "reg_crit" /\ arg[t].kind = "uAT_RegisterCommand" /\ pc'[t] # "reg_crit"

RegisterURCStep(t) ==
    pc[t] = "reg_crit" /\ arg[t].kind = "uAT_RegisterURC" /\ pc'[t] # "reg_crit"

UnregisterStep == result'.op = "uAT_UnregisterCommand" /\ nReg' = nReg + 1

\* the indices of the entries of tbl whose prefix is p, the first of a
\* non-empty set of indices, and the entries of tbl whose prefix is not p
Occurs(tbl, p) == {i \in 1 .. Len(tbl) : tbl[i].command = p}

First(S) == CHOOSE i \in S : \A j \in S : i <= j

Others(tbl, p) == SelectSeq(tbl, LAMBDA e : e.command # p)

\* C13: uAT_RegisterCommand(p, h) with an entry of prefix p in the table
\* returns UAT_OK, leaves the length of the table, the order of the entries
\* and every other entry as they are and stores h in that entry; and the
\* same call made again on the table it leaves gives the same table.
C13_RegisterIdempotent ==
    [][\A t \in Tasks : RegisterCommandStep(t) =>
        LET p == arg[t].cmd
            h == arg[t].handler
            S == Occurs(cmdHandlers, p)
        IN  /\ S # {} =>
                /\ result'.code = "OK"
                /\ Len(cmdHandlers') = Len(cmdHandlers)
                /\ \A j \in 1 .. Len(cmdHandlers) :
                       cmdHandlers'[j] = IF j = First(S) THEN Entry(p, h) ELSE cmdHandlers[j]
            /\ RegisterCommandBody(cmdHandlers', p, h).tbl = cmdHandlers']_vars

\* uAT_RegisterCommand("OK", hReg) has replaced the callback of the entry
\* "OK" that stands in front of the entry of a send-receive in flight
C13_Witness ==
    /\ result.op = "uAT_RegisterCommand"
    /\ result.code = "OK"
    /\ result.cmd = PfxOK
    /\ Len(cmdHandlers) = 2
    /\ cmdHandlers[1] = Entry(PfxOK, "hReg")
    /\ cmdHandlers[2].handler = uAT_CommandHandler_SendReceive

\* C14: after uAT_RegisterURC(p, h) returns UAT_OK, entry 0 of the table is
\* (p, h), p occurs in exactly one entry and the other entries keep their
\* relative order; when the table is full and p is not in it the call returns
\* UAT_ERR_RESOURCE and the table is unchanged.
C14_URCFront ==
    [][\A t \in Tasks : RegisterURCStep(t) =>
        LET p == arg[t].cmd
            h == arg[t].handler
        IN  /\ result'.code = "OK" =>
                /\ cmdHandlers'[1] = Entry(p, h)
                /\ Cardinality(Occurs(cmdHandlers', p)) = 1
                /\ Others(cmdHandlers', p) = Others(cmdHandlers, p)
            /\ Len(cmdHandlers) = UAT_MAX_CMD_HANDLERS /\ Occurs(cmdHandlers, p) = {} =>
                /\ result'.code = "RESOURCE"
                /\ cmdHandlers' = cmdHandlers]_vars

\* C15: uAT_UnregisterCommand(p) removes the first entry with prefix p, moves
\* the entries behind it down by one in their order and makes the table one
\* entry shorter, returning UAT_OK; when no entry has prefix p it returns
\* UAT_ERR_NOT_FOUND and the table is unchanged.
C15_UnregisterShifts ==
    [][UnregisterStep =>
        LET p == result'.cmd
            S == Occurs(cmdHandlers, p)
        IN  IF S # {}
            THEN /\ result'.code = "OK"
                 /\ Len(cmdHandlers') = Len(cmdHandlers) - 1
                 /\ \A j \in 1 .. Len(cmdHandlers') :
                        cmdHandlers'[j] = IF j < First(S) THEN cmdHandlers[j]
                                          ELSE cmdHandlers[j + 1]
            ELSE /\ result'.code = "NOT_FOUND"
                 /\ cmdHandlers' = cmdHandlers]_vars

\* uAT_UnregisterCommand("O") has removed the URC entry "O" from the front of
\* the table, and the entry "OK" registered behind it is now the first
C15_Witness ==
    /\ result.op = "uAT_UnregisterCommand"
    /\ result.code = "OK"
    /\ result.cmd = PfxO
    /\ cmdHandlers = <<Entry(PfxOK, "hReg")>>

(***************************************************************************)
(* The whole library with uAT_UnregisterCommand: one task registers and    *)
(* unregisters, the other sends with uAT_SendReceive, the dispatcher       *)
(* processes the lines and makes the calls of its callbacks.               *)
(***************************************************************************)
InitRace ==
    /\ cmdHandlers = <<>>
    /\ inSendReceive = FALSE
    /\ srBuffer = NULL
    /\ srBufferSize = 0
    /\ srBufferPos = 0
    /\ outBuf = [t \in Tasks |-> Zeroed(BufLen(t))]
    /\ handlerMutex = FREE
    /\ sendReceiveSem = 0
    /\ txMutex = FREE
    /\ txComplete = 0
    /\ txBusy = FALSE
    /\ txBuffer = <<>>
    /\ pc = [t \in Tasks |-> Home(t)]
    /\ arg = [t \in Tasks |-> NoArg]
    /\ result = NoResult
    /\ lineBuf = <<>>
    /\ handler = NoHandler
    /\ nLines = 0
    /\ nSR = 0
    /\ nReg = 0
    /\ role = [A1 |-> "unregistrar", A2 |-> "sender"]
    /\ RxInit
    /\ ParseInit

NextRace == Next \/ UnregisterCommandCall

SpecRace == InitRace /\ [][NextRace]_vars

\* C16: the handler table and the send-receive slot are written only by the
\* task that holds handlerMutex (a step that changes them is a step of the
\* holder, who has the mutex before the step or takes it with the step), and
\* while the dispatcher holds the mutex for its scan no other task's step
\* changes them.
C16_UnderMutex ==
    [][/\ uatVars' # uatVars =>
              LET h == IF handlerMutex # FREE THEN handlerMutex ELSE handlerMutex'
              IN  h # FREE /\ pc'[h] # pc[h]
       /\ pc[D] = "t_dispatch" /\ pc'[D] = "t_dispatch" => uatVars' = uatVars]_vars

(***************************************************************************)
(* The transmit path: two tasks call uAT_SendCommand, on its own and        *)
(* through uAT_SendReceive; no line arrives.                               *)
(***************************************************************************)
InitTx ==
    /\ cmdHandlers = <<>>
    /\ inSendReceive = FALSE
    /\ srBuffer = NULL
    /\ srBufferSize = 0
    /\ srBufferPos = 0
    /\ outBuf = [t \in Tasks |-> Zeroed(BufLen(t))]
    /\ handlerMutex = FREE
    /\ sendReceiveSem = 0
    /\ txMutex = FREE
    /\ txComplete = 0
    /\ txBusy = FALSE
    /\ txBuffer = <<>>
    /\ pc = [t \in Tasks |-> Home(t)]
    /\ arg = [t \in Tasks |-> NoArg]
    /\ result = NoResult
    /\ lineBuf = <<>>
    /\ handler = NoHandler
    /\ nLines = 0
    /\ nSR = 0
    /\ nReg = 0
    /\ role = [A1 |-> "sender", A2 |-> "sender"]
    /\ RxInit
    /\ ParseInit

NextTx ==
    \/ SendCommandCall
    \/ SendCommandBusy
    \/ SendCommandStart
    \/ SendCommandDone
    \/ SendCommandTimeout
    \/ HAL_UART_TxCpltCallback
    \/ SendReceiveCall
    \/ SendReceiveTake
    \/ SendReceiveTakeTimeout
    \/ SendReceiveSetup
    \/ SendReceiveWaitTimeout
    \/ SafeCleanupTake
    \/ SafeCleanupTimeout
    \/ SafeCleanupCrit

SpecTx == InitTx /\ [][NextTx]_vars

\* task t is inside uAT_SendCommand between the take and the give of txMutex
HoldsTx(t) == pc[t] = "tx_wait"

\* the step just made returned code from a uAT_SendCommand called on its own
SendCommandReturned(codes) == result.op = "uAT_SendCommand" /\ result.code \in codes

\* task t leaves uAT_SendCommand with this step
SendCommandLeaves(t) ==
    pc[t] \in {"tx_take", "tx_wait"} /\ pc'[t] \notin {"tx_take", "tx_wait"}

\* C17: at most one uAT_SendCommand call is between taking and giving
\* txMutex, and it is the holder of the mutex; a caller that cannot take the
\* mutex returns UAT_ERR_BUSY (to its task, or to uAT_SendReceive, which goes
\* to its cleanup) and leaves txBuffer as it is; and when a call that took
\* the mutex returns, with whatever code, the mutex is free.
C17_TransmitExclusive ==
    /\ [](/\ Cardinality({t \in Tasks : HoldsTx(t)}) <= 1
          /\ \A t \in Tasks : HoldsTx(t) <=> txMutex = t
          /\ SendCommandReturned({"INVALID_ARG", "SEND_FAIL", "TIMEOUT", "OK"}) => txMutex = FREE)
    /\ [][\A t \in Tasks : SendCommandLeaves(t) =>
            IF txMutex \notin {FREE, t}
            THEN /\ pc[t] = "tx_take"
                 /\ IF arg[t].kind = "uAT_SendReceive"
                    THEN pc'[t] = "sr_fclean"
                    ELSE result' = [task |-> t, op |-> "uAT_SendCommand", code |-> "BUSY",
                                    cmd |-> <<>>, log |-> <<>>]
                 /\ UNCHANGED txVars
            ELSE /\ txMutex' = FREE
                 /\ arg[t].kind # "uAT_SendReceive" =>
                        SendCommandReturned({"INVALID_ARG", "SEND_FAIL", "TIMEOUT", "OK"})']_vars

\* a call returns UAT_ERR_BUSY while the other task's call holds txMutex and
\* waits for the end of its transmission
C17_Witness ==
    /\ SendCommandReturned({"BUSY"})
    /\ \E o \in Tasks \ {result.task} : HoldsTx(o) /\ txMutex = o
    /\ txBuffer = CmdAT \o CRLF

(***************************************************************************)
(* The receive path in DMA mode: the UART receives bytes, the DMA writes   *)
(* them into the circular buffer, the idle-line interrupt forwards them to *)
(* uat.rxStream and xStreamBufferReceiveUntilDelimiter takes them out.     *)
(* The k-th byte received is the number k, so that a byte lost or          *)
(* forwarded twice shows.                                                  *)
(***************************************************************************)
\* xStreamBufferSendFromISR(uat.rxStream, data, len): the stream buffer, made
\* by xStreamBufferCreate(UAT_RX_BUFFER_SIZE, 1), takes the bytes it has room
\* for and returns their number
xStreamBufferSendFromISR(stream, data) ==
    LET n == Min(Len(data), UAT_RX_BUFFER_SIZE - Len(stream))
    IN  [stream |-> stream \o SubSeq(data, 1, n), sent |-> n]

\* one call of xStreamBufferSendFromISR as the handler's log keeps it
Push(data, sent) == [offered |-> data, sent |-> sent]

\* the head of the buffer forwarded before its tail
uAT_UART_IdleHandler_HeadFirst(buf, last_pos, current_pos, stream) ==
    IF current_pos = last_pos
    THEN [stream |-> stream, last_pos |-> current_pos, ret |-> TRUE, log |-> <<>>]
    ELSE IF current_pos > last_pos
    THEN LET run == Bytes(buf, last_pos, current_pos)
             s == xStreamBufferSendFromISR(stream, run)
         IN  [stream |-> s.stream, last_pos |-> current_pos, ret |-> s.sent >= Len(run),
              log |-> <<Push(run, s.sent)>>]
    ELSE LET head == Bytes(buf, 0, current_pos)
             s1 == xStreamBufferSendFromISR(stream, head)
             tail == Bytes(buf, last_pos, UAT_DMA_RX_SIZE)
             s2 == xStreamBufferSendFromISR(s1.stream, tail)
         IN  [stream |-> s2.stream, last_pos |-> current_pos,
              ret |-> s1.sent >= Len(head) /\ s2.sent >= Len(tail),
              log |-> <<Push(head, s1.sent), Push(tail, s2.sent)>>]

\* dma_last_pos moved only past the bytes the stream buffer took
uAT_UART_IdleHandler_Rollback(buf, last_pos, current_pos, stream) ==
    IF current_pos = last_pos
    THEN [stream |-> stream, last_pos |-> current_pos, ret |-> TRUE, log |-> <<>>]
    ELSE LET run == IF current_pos > last_pos THEN Bytes(buf, last_pos, current_pos)
                    ELSE Bytes(buf, last_pos, UAT_DMA_RX_SIZE)
             s == xStreamBufferSendFromISR(stream, run)
         IN  [stream |-> s.stream, last_pos |-> (last_pos + s.sent) % UAT_DMA_RX_SIZE,
              ret |-> s.sent >= Len(run), log |-> <<Push(run, s.sent)>>]

\* uAT_UART_IdleHandler past its null checks, with the DMA position read as
\* current_pos: the stream buffer and dma_last_pos it leaves, its return value
\* and the calls of xStreamBufferSendFromISR it made.  "data_len >
\* UAT_DMA_RX_SIZE" cannot hold for two positions inside the buffer.
uAT_UART_IdleHandler(buf, last_pos, current_pos, stream) ==
    IF current_pos = last_pos
    THEN [stream |-> stream, last_pos |-> current_pos, ret |-> TRUE, log |-> <<>>]
    ELSE IF current_pos > last_pos
    THEN LET run == Bytes(buf, last_pos, current_pos)
             s == xStreamBufferSendFromISR(stream, run)
         IN  [stream |-> s.stream, last_pos |-> current_pos, ret |-> s.sent >= Len(run),
              log |-> <<Push(run, s.sent)>>]
    ELSE LET tail == Bytes(buf, last_pos, UAT_DMA_RX_SIZE)
             s1 == xStreamBufferSendFromISR(stream, tail)
             ok1 == s1.sent >= Len(tail)
             \* "if (tail_len > 0)": no call for an empty tail
             log1 == IF Len(tail) > 0 THEN <<Push(tail, s1.sent)>> ELSE <<>>
         IN  IF current_pos > 0 /\ ok1
             THEN LET head == Bytes(buf, 0, current_pos)
                      s2 == xStreamBufferSendFromISR(s1.stream, head)
                  IN  [stream |-> s2.stream, last_pos |-> current_pos,
                       ret |-> s2.sent >= Len(head),
                       log |-> log1 \o <<Push(head, s2.sent)>>]
             ELSE [stream |-> s1.stream, last_pos |-> current_pos, ret |-> ok1,
                   log |-> log1]

\* the UART receives a byte and the circular DMA started by
\* HAL_UART_Receive_DMA(huart, uart_dma_rx_buf, UAT_DMA_RX_SIZE) stores it
DMA_Receive ==
    /\ Len(wire) < MaxBytes
    /\ LET b == Len(wire) + 1 IN
       /\ wire' = Append(wire, b)
       /\ uart_dma_rx_buf' = [uart_dma_rx_buf EXCEPT ![dmaPos] = b]
    /\ dmaPos' = (dmaPos + 1) % UAT_DMA_RX_SIZE
    /\ result' = NoResult
    /\ UNCHANGED <<uatVars, outBuf, handlerMutex, sendReceiveSem, txVars, taskVars, pc, arg,
                   nSR, nReg, role, parseVars, dma_last_pos, rxStream, dest, total, seen, intact, got>>

\* the idle-line interrupt: USARTx_IRQHandler calls uAT_UART_IdleHandler
USARTx_IRQHandler ==
    LET r == uAT_UART_IdleHandler(uart_dma_rx_buf, dma_last_pos, dmaPos, rxStream) IN
    /\ rxStream' = r.stream
    /\ dma_last_pos' = r.last_pos
    /\ seen' = Len(wire)
    /\ intact' = (/\ intact
                  /\ Len(wire) - seen < UAT_DMA_RX_SIZE
                  /\ Len(wire) - seen <= UAT_RX_BUFFER_SIZE - Len(rxStream))
    /\ result' = [task |-> "ISR", op |-> "uAT_UART_IdleHandler", code |-> r.ret,
                  cmd |-> <<>>, log |-> r.log]
    /\ UNCHANGED <<uatVars, outBuf, handlerMutex, sendReceiveSem, txVars, taskVars, pc, arg,
                   nSR, nReg, role, parseVars, uart_dma_rx_buf, dmaPos, dest, total, wire, got>>

\* the dispatcher task takes one byte out of the stream buffer, as the
\* xStreamBufferReceive(stream, &ch, 1, xTimeToWait) of its framer does
xStreamBufferReceive ==
    /\ rxStream # <<>>
    /\ got' = Append(got, Head(rxStream))
    /\ rxStream' = Tail(rxStream)
    /\ result' = NoResult
    /\ UNCHANGED <<uatVars, outBuf, handlerMutex, sendReceiveSem, txVars, taskVars, pc, arg,
                   nSR, nReg, role, parseVars, uart_dma_rx_buf, dmaPos, dma_last_pos, dest, total, wire,
                   seen, intact>>

InitRx ==
    /\ cmdHandlers = <<>>
    /\ inSendReceive = FALSE
    /\ srBuffer = NULL
    /\ srBufferSize = 0
    /\ srBufferPos = 0
    /\ outBuf = [t \in Tasks |-> Zeroed(BufLen(t))]
    /\ handlerMutex = FREE
    /\ sendReceiveSem = 0
    /\ txMutex = FREE
    /\ txComplete = 0
    /\ txBusy = FALSE
    /\ txBuffer = <<>>
    /\ pc = [t \in Tasks |-> Home(t)]
    /\ arg = [t \in Tasks |-> NoArg]
    /\ result = NoResult
    /\ lineBuf = <<>>
    /\ handler = NoHandler
    /\ nLines = 0
    /\ nSR = 0
    /\ nReg = 0
    /\ role = [A1 |-> "sender", A2 |-> "sender"]
    /\ RxInit
    /\ ParseInit

NextDma ==
    \/ DMA_Receive
    \/ USARTx_IRQHandler
    \/ xStreamBufferReceive

SpecDma == InitRx /\ [][NextDma]_vars

\* this step is a call of uAT_UART_IdleHandler
IdleStep == result'.op = "uAT_UART_IdleHandler"

\* the byte runs offered to the stream buffer by the calls in log, in order
Offered(log) == [i \in 1 .. Len(log) |-> log[i].offered]

\* the number of bytes between the cursor and the DMA position
Pending == (dmaPos - dma_last_pos + UAT_DMA_RX_SIZE) % UAT_DMA_RX_SIZE

\* C18: an idle-handler call with cursor l and DMA position c that finds room
\* for the bytes between them pushes nothing when c = l, the one run
\* dma[l..c) when c > l, and dma[l..D) followed by dma[0..c) when c < l, and
\* the stream buffer takes all of them in that order; and as long as every
\* idle event came with fewer than D new bytes and found room, the bytes that
\* went through the stream buffer are the bytes received up to the last idle
\* event, in order, none lost and none twice.
C18_IdleForwards ==
    /\ [][IdleStep /\ Pending <= UAT_RX_BUFFER_SIZE - Len(rxStream) =>
            LET l == dma_last_pos
                c == dmaPos
                log == result'.log
            IN  /\ \A i \in 1 .. Len(log) : log[i].sent = Len(log[i].offered)
                /\ c = l => log = <<>> /\ rxStream' = rxStream
                /\ c > l => /\ Offered(log) = <<Bytes(uart_dma_rx_buf, l, c)>>
                            /\ rxStream' = rxStream \o Bytes(uart_dma_rx_buf, l, c)
                /\ c < l => /\ Offered(log) =
                                  IF c = 0
                                  THEN <<Bytes(uart_dma_rx_buf, l, UAT_DMA_RX_SIZE)>>
                                  ELSE <<Bytes(uart_dma_rx_buf, l, UAT_DMA_RX_SIZE),
                                         Bytes(uart_dma_rx_buf, 0, c)>>
                            /\ rxStream' = rxStream \o Bytes(uart_dma_rx_buf, l, UAT_DMA_RX_SIZE)
                                                    \o Bytes(uart_dma_rx_buf, 0, c)]_vars
    /\ [](intact => got \o rxStream = SubSeq(wire, 1, seen))

\* an idle event has forwarded a tail and a head after the DMA position
\* wrapped, every byte received so far has gone through the stream buffer
\* and some have been taken out
C18_Witness ==
    /\ result.op = "uAT_UART_IdleHandler"
    /\ Len(result.log) = 2
    /\ result.code = TRUE
    /\ intact
    /\ got # <<>>
    /\ got \o rxStream = wire

\* C19: after an idle-handler call dma_last_pos is the DMA position read in
\* the call, whether or not the stream buffer took every byte; the call
\* returns false exactly when some xStreamBufferSendFromISR took fewer bytes
\* than it was offered; and every byte it offers arrived after the previous
\* idle event, so a byte that was offered once is not offered again.
C19_CursorAdvances ==
    [][IdleStep =>
        LET log == result'.log IN
        /\ dma_last_pos' = dmaPos
        /\ result'.code = (\A i \in 1 .. Len(log) : log[i].sent >= Len(log[i].offered))
        /\ \A i \in 1 .. Len(log) : \A k \in 1 .. Len(log[i].offered) :
               log[i].offered[k] > seen /\ log[i].offered[k] <= Len(wire)]_vars

\* an idle event found the stream buffer too full for the new bytes: it
\* returned false, the cursor is at the DMA position and bytes are lost
C19_Witness ==
    /\ result.op = "uAT_UART_IdleHandler"
    /\ result.code = FALSE
    /\ dma_last_pos = dmaPos
    /\ Len(rxStream) = UAT_RX_BUFFER_SIZE
    /\ Len(got) + Len(rxStream) < seen

(***************************************************************************)
(* The receive path in interrupt mode and the framer: each byte received   *)
(* is pushed to uat.rxStream by HAL_UART_RxCpltCallback, and uAT_Task      *)
(* calls xStreamBufferReceiveUntilDelimiter(uat.rxStream, lineBuf,         *)
(* sizeof(lineBuf), UAT_LINE_TERMINATOR, 1000 ms) to take a line out.      *)
(***************************************************************************)
RxBytes == {"\r", "\n", "A"}

UAT_LINE_TERMINATOR == CRLF

\* HAL_UART_RxCpltCallback: uAT_PushRxByte(rxByte); a byte that finds the
\* stream buffer full is dropped
HAL_UART_RxCpltCallback ==
    /\ Len(wire) < MaxChars
    /\ \E ch \in RxBytes :
        LET s == xStreamBufferSendFromISR(rxStream, <<ch>>) IN
        /\ rxStream' = s.stream
        /\ wire' = Append(wire, ch)
        /\ intact' = (intact /\ s.sent = 1)
    /\ seen' = Len(wire')
    /\ result' = NoResult
    /\ UNCHANGED <<uatVars, outBuf, handlerMutex, sendReceiveSem, txVars, taskVars, pc, arg,
                   nSR, nReg, role, parseVars, uart_dma_rx_buf, dmaPos, dma_last_pos, dest, total, got>>

\* the delimiter is never found
DelimiterFound_Never(d, n, delim) == FALSE

\* "total >= strlen(delim) && strstr(dest + total - strlen(delim), delim)":
\* delim occurs in the C string that starts strlen(delim) bytes before the end
DelimiterFound(d, n, delim) ==
    /\ n >= Len(delim)
    /\ LET str == CStrFrom(d, n - Len(delim)) IN
       \E k \in 1 .. Len(str) : k + Len(delim) - 1 <= Len(str)
                                /\ SubSeq(str, k, k + Len(delim) - 1) = delim

\* the end of xStreamBufferReceiveUntilDelimiter: the final null termination
\* and the return of total
ReceiveUntilReturn(d, n, maxLen) ==
    /\ dest' = IF n < maxLen THEN [d EXCEPT ![n] = NUL] ELSE [d EXCEPT ![maxLen - 1] = NUL]
    /\ total' = n
    /\ got' = got \o Bytes(d, 0, n)
    /\ Goto(D, Home(D))
    /\ result' = [task |-> D, op |-> "xStreamBufferReceiveUntilDelimiter", code |-> n,
                  cmd |-> <<>>, log |-> <<>>]

\* the call by uAT_Task, up to the loop: memset(dest, 0, maxLen), total = 0
xStreamBufferReceiveUntilDelimiter_Call ==
    /\ pc[D] = "frame"
    /\ dest' = Zeroed(UAT_RX_BUFFER_SIZE)
    /\ total' = 0
    /\ Goto(D, "ru_loop")
    /\ result' = NoResult
    /\ UNCHANGED <<uatVars, outBuf, handlerMutex, sendReceiveSem, txVars, taskVars, arg,
                   nSR, nReg, role, parseVars, uart_dma_rx_buf, dmaPos, dma_last_pos, rxStream, wire,
                   seen, intact, got>>

\* one turn of the loop in which xStreamBufferReceive returns a byte: it is
\* stored, dest is terminated, and the loop ends when the delimiter is found
\* or "total < maxLen - 1" no longer holds
xStreamBufferReceiveUntilDelimiter_Byte ==
    /\ pc[D] = "ru_loop"
    /\ rxStream # <<>>
    /\ rxStream' = Tail(rxStream)
    /\ LET maxLen == UAT_RX_BUFFER_SIZE
           n == total + 1
           d == [dest EXCEPT ![total] = Head(rxStream), ![n] = NUL]
       IN  IF DelimiterFound(d, n, UAT_LINE_TERMINATOR) \/ ~(n < maxLen - 1)
           THEN ReceiveUntilReturn(d, n, maxLen)
           ELSE /\ dest' = d
                /\ total' = n
                /\ result' = NoResult
                /\ UNCHANGED <<pc, got>>
    /\ UNCHANGED <<uatVars, outBuf, handlerMutex, sendReceiveSem, txVars, taskVars, arg,
                   nSR, nReg, role, parseVars, uart_dma_rx_buf, dmaPos, dma_last_pos, wire, seen, intact>>

\* one turn of the loop in which xTaskCheckForTimeOut returns pdTRUE, or
\* xStreamBufferReceive returns 0 after waiting for the time that was left
xStreamBufferReceiveUntilDelimiter_Timeout ==
    /\ pc[D] = "ru_loop"
    /\ ReceiveUntilReturn(dest, total, UAT_RX_BUFFER_SIZE)
    /\ UNCHANGED <<uatVars, outBuf, handlerMutex, sendReceiveSem, txVars, taskVars, arg,
                   nSR, nReg, role, parseVars, uart_dma_rx_buf, dmaPos, dma_last_pos, rxStream, wire,
                   seen, intact>>

NextRecv ==
    \/ HAL_UART_RxCpltCallback
    \/ xStreamBufferReceiveUntilDelimiter_Call
    \/ xStreamBufferReceiveUntilDelimiter_Byte
    \/ xStreamBufferReceiveUntilDelimiter_Timeout

SpecRecv == InitRx /\ [][NextRecv]_vars

\* the task is inside the loop of xStreamBufferReceiveUntilDelimiter
InLoop == pc[D] = "ru_loop"

\* the last bytes of dest[0 .. n-1] are the delimiter
EndsWith(d, n, delim) == n >= Len(delim) /\ Bytes(d, n - Len(delim), n) = delim

\* C20: xStreamBufferReceiveUntilDelimiter returns a count n <= maxLen - 1
\* with dest[n] the null terminator.  Each byte it takes from the stream
\* buffer is the oldest one and is stored behind the bytes taken before; it
\* goes on while the bytes stored do not end with the delimiter and are fewer
\* than maxLen - 1, and it returns when they end with the delimiter, when
\* they are maxLen - 1, or on a timeout, in which no byte is taken.  The
\* bytes the stream buffer accepted are, in order, the bytes returned so far,
\* the bytes stored by the call in progress and the bytes still in the
\* stream buffer.
C20_ReceiveUntil ==
    /\ [](/\ result.op = "xStreamBufferReceiveUntilDelimiter" =>
                /\ result.code = total
                /\ total <= UAT_RX_BUFFER_SIZE - 1
                /\ dest[total] = NUL
          /\ intact => wire = got \o (IF InLoop THEN Bytes(dest, 0, total) ELSE <<>>) \o rxStream)
    /\ [][InLoop =>
            /\ total' # total =>
                   /\ total' = total + 1
                   /\ rxStream = <<dest'[total]>> \o rxStream'
                   /\ Bytes(dest', 0, total) = Bytes(dest, 0, total)
                   /\ dest'[total'] = NUL
            /\ InLoop' =>
                   /\ ~EndsWith(dest', total', UAT_LINE_TERMINATOR)
                   /\ total' < UAT_RX_BUFFER_SIZE - 1
            /\ ~InLoop' =>
                   /\ \/ EndsWith(dest', total', UAT_LINE_TERMINATOR)
                      \/ total' = UAT_RX_BUFFER_SIZE - 1
                      \/ total' = total /\ rxStream' = rxStream
                   /\ got' = got \o Bytes(dest', 0, total')]_vars

\* a call has returned a line that ends with the delimiter while more bytes
\* wait in the stream buffer
C20_Witness ==
    /\ result.op = "xStreamBufferReceiveUntilDelimiter"
    /\ result.code = 3
    /\ Bytes(dest, 0, total) = <<"A", "\r", "\n">>
    /\ rxStream # <<>>
    /\ Len(got) > 3

(***************************************************************************)
(* The dispatcher with its framer: uAT_Task takes each line out of         *)
(* uat.rxStream with xStreamBufferReceiveUntilDelimiter and, when the      *)
(* length returned is not 0, dispatches it.  One application task          *)
(* registers a handler meanwhile; no application task sends, so a          *)
(* send-receive is one a callback makes: it finds handlerMutex free and    *)
(* no line is dispatched while it waits.                                   *)
(***************************************************************************)
\* what the modem sends: two lines that start with "OK", the second without
\* its terminator yet; a line "O" and a line "K"; bytes without a terminator;
\* an empty line and a line "OK"
Traffic == {<<"O", "K", "\r", "\n", "O", "K">>,
            <<"O", "\r", "\n", "K", "\r", "\n">>,
            <<"O", "K", "O", "K", "O", "K">>,
            <<"\r", "\n", "O", "K", "\r", "\n">>}

\* HAL_UART_RxCpltCallback for the next byte of what the modem sends
HAL_UART_RxCpltCallback_Modem ==
    /\ Len(wire) < MaxChars
    /\ \E s \in Traffic :
        /\ Len(wire) < Len(s)
        /\ SubSeq(s, 1, Len(wire)) = wire
        /\ LET r == xStreamBufferSendFromISR(rxStream, <<s[Len(wire) + 1]>>) IN
           /\ rxStream' = r.stream
           /\ wire' = Append(wire, s[Len(wire) + 1])
           /\ intact' = (intact /\ r.sent = 1)
    /\ seen' = Len(wire')
    /\ result' = NoResult
    /\ UNCHANGED <<uatVars, outBuf, handlerMutex, sendReceiveSem, txVars, taskVars, pc, arg,
                   nSR, nReg, role, parseVars, uart_dma_rx_buf, dmaPos, dma_last_pos, dest, total, got>>

\* the return of xStreamBufferReceiveUntilDelimiter into uAT_Task and the
\* "if (len > 0)" that follows it: lineBuf is the dest of the call
uAT_Task_Len(d, n, maxLen) ==
    /\ dest' = IF n < maxLen THEN [d EXCEPT ![n] = NUL] ELSE [d EXCEPT ![maxLen - 1] = NUL]
    /\ total' = n
    /\ got' = got \o Bytes(d, 0, n)
    /\ lineBuf' = Bytes(d, 0, n)
    /\ Goto(D, IF n > 0 THEN "t_take" ELSE "frame")
    /\ result' = [task |-> D, op |-> "xStreamBufferReceiveUntilDelimiter", code |-> n,
                  cmd |-> <<>>, log |-> <<>>]

\* a stream buffer that hands out its newest byte first
uAT_Task_Receive_Byte_Newest ==
    /\ pc[D] = "ru_loop"
    /\ rxStream # <<>>
    /\ rxStream' = SubSeq(rxStream, 1, Len(rxStream) - 1)
    /\ LET maxLen == UAT_RX_BUFFER_SIZE
           n == total + 1
           d == [dest EXCEPT ![total] = rxStream[Len(rxStream)], ![n] = NUL]
       IN  IF DelimiterFound(d, n, UAT_LINE_TERMINATOR) \/ ~(n < maxLen - 1)
           THEN uAT_Task_Len(d, n, maxLen)
           ELSE /\ dest' = d
                /\ total' = n
                /\ result' = NoResult
                /\ UNCHANGED <<pc, got, lineBuf>>
    /\ UNCHANGED <<uatVars, outBuf, handlerMutex, sendReceiveSem, txVars, handler, nLines, arg,
                   nSR, nReg, role, parseVars, uart_dma_rx_buf, dmaPos, dma_last_pos, wire, seen, intact>>

\* one turn of the loop of xStreamBufferReceiveUntilDelimiter, called by
\* uAT_Task, in which xStreamBufferReceive returns a byte
uAT_Task_Receive_Byte ==
    /\ pc[D] = "ru_loop"
    /\ rxStream # <<>>
    /\ rxStream' = Tail(rxStream)
    /\ LET maxLen == UAT_RX_BUFFER_SIZE
           n == total + 1
           d == [dest EXCEPT ![total] = Head(rxStream), ![n] = NUL]
       IN  IF DelimiterFound(d, n, UAT_LINE_TERMINATOR) \/ ~(n < maxLen - 1)
           THEN uAT_Task_Len(d, n, maxLen)
           ELSE /\ dest' = d
                /\ total' = n
                /\ result' = NoResult
                /\ UNCHANGED <<pc, got, lineBuf>>
    /\ UNCHANGED <<uatVars, outBuf, handlerMutex, sendReceiveSem, txVars, handler, nLines, arg,
                   nSR, nReg, role, parseVars, uart_dma_rx_buf, dmaPos, dma_last_pos, wire, seen, intact>>

\* one turn of that loop in which the 1000 ms are over
uAT_Task_Receive_Timeout ==
    /\ pc[D] = "ru_loop"
    /\ uAT_Task_Len(dest, total, UAT_RX_BUFFER_SIZE)
    /\ UNCHANGED <<uatVars, outBuf, handlerMutex, sendReceiveSem, txVars, handler, nLines, arg,
                   nSR, nReg, role, parseVars, uart_dma_rx_buf, dmaPos, dma_last_pos, rxStream, wire,
                   seen, intact>>

InitOrd ==
    /\ cmdHandlers = <<>>
    /\ inSendReceive = FALSE
    /\ srBuffer = NULL
    /\ srBufferSize = 0
    /\ srBufferPos = 0
    /\ outBuf = [t \in Tasks |-> Zeroed(BufLen(t))]
    /\ handlerMutex = FREE
    /\ sendReceiveSem = 0
    /\ txMutex = FREE
    /\ txComplete = 0
    /\ txBusy = FALSE
    /\ txBuffer = <<>>
    /\ pc = [t \in Tasks |-> Home(t)]
    /\ arg = [t \in Tasks |-> NoArg]
    /\ result = NoResult
    /\ lineBuf = <<>>
    /\ handler = NoHandler
    /\ nLines = 0
    /\ nSR = 0
    /\ nReg = 0
    /\ role = [A1 |-> "registrar", A2 |-> "none"]
    /\ RxInit
    /\ ParseInit

NextOrd ==
    \/ RegisterCommandCall
    \/ RegisterURCCall
    \/ RegisterTake
    \/ RegisterCommandCrit
    \/ RegisterURCCrit
    \/ SendCommandStart
    \/ SendCommandDone
    \/ SendCommandTimeout
    \/ HAL_UART_TxCpltCallback
    \/ SendReceiveTake
    \/ SendReceiveSetup
    \/ SendReceiveWaitTimeout
    \/ SafeCleanupTake
    \/ SafeCleanupCrit
    \/ HAL_UART_RxCpltCallback_Modem
    \/ xStreamBufferReceiveUntilDelimiter_Call
    \/ uAT_Task_Receive_Byte
    \/ uAT_Task_Receive_Timeout
    \/ uAT_Task_Take
    \/ uAT_Task_TakeTimeout
    \/ uAT_Task_Dispatch
    \/ uAT_Task_InvokeSendReceive
    \/ uAT_Task_InvokeUser
    \/ uAT_Task_InvokeRegistering
    \/ uAT_Task_InvokeSendReceiving

SpecOrd == InitOrd /\ [][NextOrd]_vars

\* the dispatcher holds a framed line: it is between the return of
\* xStreamBufferReceiveUntilDelimiter and the return of uAT_DispatchCommand,
\* or in the handler
Dispatching == pc[D] \in {"t_take", "t_dispatch", "t_invoke"}

\* the dispatcher is in xStreamBufferReceiveUntilDelimiter or about to call it
Framing == pc[D] \in {"frame", "ru_loop"}

\* the last n bytes the framer returned
LastGot(n) == SubSeq(got, Len(got) - n + 1, Len(got))

\* the step in which uAT_DispatchCommand finds the handler it calls next
InvokeStep == pc[D] = "t_dispatch" /\ pc'[D] = "t_invoke"

\* C21: the lines reach the dispatcher in the order their bytes entered the
\* stream buffer, and the handlers run in that order, one at a time.  The
\* bytes the stream buffer accepted are, in order, the bytes of the lines
\* framed so far, the bytes of the line being framed and the bytes still in
\* the stream buffer.  The line the dispatcher holds, and the one a handler is
\* found for, is the line framed last.  A line is framed only from inside
\* xStreamBufferReceiveUntilDelimiter, so not before the handler of the line
\* before it has returned, and while the dispatcher is not framing it takes
\* no byte from the stream buffer.
C21_ArrivalOrder ==
    /\ [](/\ intact => wire = got \o (IF InLoop THEN Bytes(dest, 0, total) ELSE <<>>) \o rxStream
          /\ Dispatching =>
                /\ lineBuf # <<>>
                /\ Len(lineBuf) <= Len(got)
                /\ lineBuf = LastGot(Len(lineBuf)))
    /\ [][/\ got' # got =>
                /\ InLoop
                /\ pc'[D] = "t_take"
                /\ lineBuf' # <<>>
                /\ got' = got \o lineBuf'
          /\ InvokeStep =>
                /\ handler' = FirstMatch(cmdHandlers, Compared(LastGot(Len(lineBuf))))
                /\ UNCHANGED <<lineBuf, got>>
          /\ ~Framing =>
                /\ got' = got
                /\ Len(rxStream') >= Len(rxStream)
                /\ SubSeq(rxStream', 1, Len(rxStream)) = rxStream]_vars

\* the handler hReg is about to be called for the second line "OK": its call
\* for the first line "OK\r\n" has returned, since the entry "X" it registers
\* is in the table
C21_Witness ==
    /\ pc[D] = "t_invoke"
    /\ handler = "hReg"
    /\ FindCommand(cmdHandlers, PfxX, 1) # 0
    /\ got = <<"O", "K", "\r", "\n", "O", "K">>
    /\ lineBuf = <<"O", "K">>

(***************************************************************************)
(* The dispatcher with its framer and one application task that sends      *)
(* with uAT_SendReceive: the two compete for handlerMutex, which the       *)
(* dispatcher takes with a timeout of 100 ms.                              *)
(***************************************************************************)
InitDrop ==
    /\ cmdHandlers = <<>>
    /\ inSendReceive = FALSE
    /\ srBuffer = NULL
    /\ srBufferSize = 0
    /\ srBufferPos = 0
    /\ outBuf = [t \in Tasks |-> Zeroed(BufLen(t))]
    /\ handlerMutex = FREE
    /\ sendReceiveSem = 0
    /\ txMutex = FREE
    /\ txComplete = 0
    /\ txBusy = FALSE
    /\ txBuffer = <<>>
    /\ pc = [t \in Tasks |-> Home(t)]
    /\ arg = [t \in Tasks |-> NoArg]
    /\ result = NoResult
    /\ lineBuf = <<>>
    /\ handler = NoHandler
    /\ nLines = 0
    /\ nSR = 0
    /\ nReg = 0
    /\ role = [A1 |-> "sender", A2 |-> "none"]
    /\ RxInit
    /\ ParseInit

NextDrop ==
    \/ SendCommandStart
    \/ SendCommandDone
    \/ SendCommandTimeout
    \/ HAL_UART_TxCpltCallback
    \/ SendReceiveCall
    \/ SendReceiveTake
    \/ SendReceiveTakeTimeout
    \/ SendReceiveSetup
    \/ SendReceiveMatched
    \/ SendReceiveWaitTimeout
    \/ SafeCleanupTake
    \/ SafeCleanupTimeout
    \/ SafeCleanupCrit
    \/ HAL_UART_RxCpltCallback_Modem
    \/ xStreamBufferReceiveUntilDelimiter_Call
    \/ uAT_Task_Receive_Byte
    \/ uAT_Task_Receive_Timeout
    \/ uAT_Task_Take
    \/ uAT_Task_TakeTimeout
    \/ uAT_Task_Dispatch
    \/ uAT_Task_InvokeSendReceive

SpecDrop == InitDrop /\ [][NextDrop]_vars

\* the step in which the dispatcher gives a framed line up
DropStep == pc[D] = "t_take" /\ pc'[D] = "frame"

ResetMark(t) == <<"uAT_Reset", pc[t]>>

\* what xStreamBufferReset leaves in the stream buffer: nothing, or, when the
\* dispatcher is blocked on the stream buffer, what was there (the reset
\* fails)
xStreamBufferReset(stream) ==
    IF pc[D] \in {"frame", "ru_loop"} THEN {<<>>, stream} ELSE {<<>>}

\* a reset that also clears the send-receive slot
uAT_Reset_Call_ClearSlot(t) ==
    /\ pc[t] = "idle"
    /\ role[t] = "resetter"
    /\ nReg < CallBudget(t)
    /\ nReg' = nReg + 1
    /\ txBusy' = FALSE
    /\ inSendReceive' = FALSE
    /\ rxStream' = <<>>
    /\ dma_last_pos' = 0
    /\ dmaPos' = 0
    /\ intact' = (intact /\ rxStream' = rxStream)
    /\ result' = [task |-> t, op |-> "uAT_Reset", code |-> "OK", cmd |-> <<>>, log |-> <<>>]
    /\ UNCHANGED <<cmdHandlers, srBuffer, srBufferSize, srBufferPos, outBuf,
                   handlerMutex, sendReceiveSem, txMutex, txComplete, txBuffer, taskVars, pc,
                   arg, nSR, role, parseVars, uart_dma_rx_buf, dest, total, wire, seen, got>>

\* uAT_Reset, from its call to its return: HAL_UART_AbortReceive and
\* HAL_UART_AbortTransmit stop the transfers in progress without a completion
\* callback, the stream buffer is reset, dma_last_pos is 0 and the DMA
\* reception starts again at the start of uart_dma_rx_buf, unless
\* HAL_UART_Receive_DMA fails.  It takes no mutex and never blocks
uAT_Reset_Call(t) ==
    /\ pc[t] = "idle"
    /\ role[t] = "resetter"
    /\ nReg < CallBudget(t)
    /\ nReg' = nReg + 1
    /\ txBusy' = FALSE
    /\ rxStream' \in xStreamBufferReset(rxStream)
    /\ dma_last_pos' = 0
    /\ \E halOK \in BOOLEAN :
        /\ dmaPos' = IF halOK THEN 0 ELSE dmaPos
        /\ result' = [task |-> t, op |-> "uAT_Reset", code |-> IF halOK THEN "OK" ELSE "INIT_FAIL",
                      cmd |-> <<>>, log |-> <<>>]
    /\ intact' = (intact /\ rxStream' = rxStream)
    /\ arg' = [u \in Tasks |->
                  IF inSendReceive /\ srBuffer = u /\ arg[u].kind = "uAT_SendReceive"
                     /\ pc[u] \in {"tx_take", "tx_wait", "sr_wait", "sr_clean", "sr_fclean",
                                   "sr_cleanup"}
                  THEN [arg[u] EXCEPT !.log = Append(@, ResetMark(u))]
                  ELSE arg[u]]
    /\ UNCHANGED <<uatVars, outBuf, handlerMutex, sendReceiveSem, txMutex, txComplete, txBuffer,
                   taskVars, pc, nSR, role, parseVars, uart_dma_rx_buf, dest, total, wire, seen, got>>

ResetCall == \E t \in AppTasks : uAT_Reset_Call(t)

InitReset ==
    /\ cmdHandlers = <<>>
    /\ inSendReceive = FALSE
    /\ srBuffer = NULL
    /\ srBufferSize = 0
    /\ srBufferPos = 0
    /\ outBuf = [t \in Tasks |-> Zeroed(BufLen(t))]
    /\ handlerMutex = FREE
    /\ sendReceiveSem = 0
    /\ txMutex = FREE
    /\ txComplete = 0
    /\ txBusy = FALSE
    /\ txBuffer = <<>>
    /\ pc = [t \in Tasks |-> Home(t)]
    /\ arg = [t \in Tasks |-> NoArg]
    /\ result = NoResult
    /\ lineBuf = <<>>
    /\ handler = NoHandler
    /\ nLines = 0
    /\ nSR = 0
    /\ nReg = 0
    /\ role = [A1 |-> "sender", A2 |-> "resetter"]
    /\ RxInit
    /\ ParseInit

NextReset ==
    \/ ResetCall
    \/ SendCommandStart
    \/ SendCommandDone
    \/ SendCommandTimeout
    \/ HAL_UART_TxCpltCallback
    \/ SendReceiveCall
    \/ SendReceiveTake
    \/ SendReceiveTakeTimeout
    \/ SendReceiveSetup
    \/ SendReceiveMatched
    \/ SendReceiveWaitTimeout
    \/ SafeCleanupTake
    \/ SafeCleanupTimeout
    \/ SafeCleanupCrit
    \/ uAT_Task_Frame
    \/ uAT_Task_Take
    \/ uAT_Task_TakeTimeout
    \/ uAT_Task_Dispatch
    \/ uAT_Task_InvokeSendReceive

\* the tasks of this specification under the scheduling of SpecLive
SpecReset == InitReset /\ [][NextReset]_vars /\ Scheduling

\* the step is a call of uAT_Reset
ResetStep == result'.op = "uAT_Reset"

\* uAT_Reset was called while the send-receive of this log was set up and the
\* caller was at one of places
MarkAt(log, places) ==
    \E i \in 1 .. Len(log) : Len(log[i]) = 2 /\ log[i][1] = "uAT_Reset" /\ log[i][2] \in places

HasMark(log) == \E i \in 1 .. Len(log) : Len(log[i]) = 2 /\ log[i][1] = "uAT_Reset"

\* C23 as stated: a uAT_SendReceive call that was set up when uAT_Reset was
\* called returns UAT_ERR_TIMEOUT or UAT_OK.
C23_TimeoutOrMatch ==
    result.op = "uAT_SendReceive" /\ HasMark(result.log) => result.code \in {"TIMEOUT", "OK"}

\* C23: a call of uAT_Reset changes neither the handler table nor the
\* send-receive slot, the caller's buffer, the mutexes and semaphores, nor
\* where any task is or what its call was given.  A uAT_SendReceive call that
\* was set up at the reset returns later; it returns UAT_ERR_TIMEOUT or UAT_OK
\* when the reset came after uAT_SendCommand had returned UAT_OK, and
\* otherwise it may also return UAT_ERR_SEND_FAIL: the transmission the
\* reset aborted has no completion callback.
C23_ResetKeepsSlot ==
    /\ [][ResetStep =>
            /\ UNCHANGED <<cmdHandlers, inSendReceive, srBuffer, srBufferSize, srBufferPos, outBuf,
                           handlerMutex, sendReceiveSem, txMutex, txComplete, pc>>
            /\ \A u \in Tasks : [arg'[u] EXCEPT !.log = <<>>] = [arg[u] EXCEPT !.log = <<>>]]_vars
    /\ \A t \in Tasks : (InSendReceive(t) /\ HasMark(arg[t].log)) ~> ~InSendReceive(t)
    /\ [](result.op = "uAT_SendReceive" /\ HasMark(result.log) =>
            /\ result.code \in {"TIMEOUT", "OK", "SEND_FAIL"}
            /\ MarkAt(result.log, {"sr_wait", "sr_clean"})
                  => result.code \in {"TIMEOUT", "OK"})

\* a send-receive returns UAT_ERR_TIMEOUT after a reset that came while it
\* waited for its response, and its entry has left the table
C23_Witness ==
    /\ SRReturned({"TIMEOUT"})
    /\ MarkAt(result.log, {"sr_wait"})
    /\ ~inSendReceive
    /\ nReg = 1

(***************************************************************************)
(* uat_parser.c.  Its functions are pure: each reads the C strings it is   *)
(* given and writes its outputs.  A C string is the sequence of its bytes  *)
(* before the terminating NUL, and a char pointer is such a sequence or    *)
(* NullStr.                                                                *)
(***************************************************************************)
NullStr == <<NULL>>

\* strstr(h, n) as an offset into h, or -1 for NULL: the first place from
\* which the bytes of n follow; the empty n is found at offset 0
RECURSIVE StrStrFrom(_, _, _)
StrStrFrom(h, n, k) ==
    IF k + Len(n) > Len(h) THEN -1
    ELSE IF SubSeq(h, k + 1, k + Len(n)) = n THEN k
    ELSE StrStrFrom(h, n, k + 1)

\* a search that looks at the start of h only
StrStr_AtStart(h, n) ==
    IF Len(n) <= Len(h) /\ SubSeq(h, 1, Len(n)) = n THEN 0 ELSE -1

StrStr(h, n) == StrStrFrom(h, n, 0)

uAT_HasPrefix(response, prefix) ==
    IF response = NullStr \/ prefix = NullStr THEN FALSE
    ELSE StrStr(response, prefix) # -1

uAT_IsError(response) ==
    IF response = NullStr THEN FALSE
    ELSE uAT_HasPrefix(response, <<"E", "R", "R", "O", "R">>)

uAT_IsOK(response) ==
    IF response = NullStr THEN FALSE
    ELSE uAT_HasPrefix(response, <<"O", "K">>)

\* responses and prefixes given to uAT_HasPrefix, uAT_IsError and uAT_IsOK
StatusResponses ==
    {<<"O", "K", "\r", "\n">>,
     <<"E", "R", "R", "O", "R", "\r", "\n">>,
     <<"+", "C", "R", "E", "G", ":", " ", "1", ",", "2">>,
     <<"A", "T", "+", "C", "R", "E", "G", "?", "\r", "\n">>,
     <<"O">>,
     <<"O", "K", "A", "Y">>,
     <<"+", "C", "M", "E", " ", "E", "R", "R", "O", "R", ":", " ", "3">>,
     <<"E", "R", "R">>,
     <<"A", "T", "\r", "\n", "O", "K", "\r", "\n">>,
     <<"+", "C", "M", "S", " ", "E", "R", "R", "O", "R", ":", " ", "3", "0", "\r", "\n">>,
     <<>>,
     NullStr}

StatusPrefixes ==
    {<<"O", "K">>, <<"E", "R", "R", "O", "R">>, <<"+", "C", "R", "E", "G">>, <<>>, NullStr}

\* what a call of a parser function leaves alone: everything the library of
\* uat_freertos.c holds
\* The functions of uat_parser.c keep no state between calls: a behaviour
\* makes one call, of any of them with any arguments.
libVars == <<uatVars, outBuf, handlerMutex, sendReceiveSem, txVars, pc, arg, taskVars,
             nSR, nReg, role, rxVars>>

uAT_HasPrefix_Call ==
    /\ parseArgs.fn = "none"
    /\ \E r \in StatusResponses, p \in StatusPrefixes :
        /\ parseArgs' = [fn |-> "uAT_HasPrefix", response |-> r, prefix |-> p]
        /\ parseRet' = [code |-> uAT_HasPrefix(r, p)]
    /\ result' = NoResult
    /\ UNCHANGED libVars

uAT_IsError_Call ==
    /\ parseArgs.fn = "none"
    /\ \E r \in StatusResponses :
        /\ parseArgs' = [fn |-> "uAT_IsError", response |-> r]
        /\ parseRet' = [code |-> uAT_IsError(r)]
    /\ result' = NoResult
    /\ UNCHANGED libVars

uAT_IsOK_Call ==
    /\ parseArgs.fn = "none"
    /\ \E r \in StatusResponses :
        /\ parseArgs' = [fn |-> "uAT_IsOK", response |-> r]
        /\ parseRet' = [code |-> uAT_IsOK(r)]
    /\ result' = NoResult
    /\ UNCHANGED libVars

\* p occurs in r at some offset
Contains(r, p) ==
    \E i \in 1 .. Len(r) - Len(p) + 1 : SubSeq(r, i, i + Len(p) - 1) = p

\* C24 as stated: uAT_HasPrefix is false when the prefix occurs in the
\* response, but not at its start.
C24_PrefixAtStartOnly ==
    /\ parseArgs.fn = "uAT_HasPrefix"
    /\ parseArgs.response # NullStr
    /\ parseArgs.prefix # NullStr
    /\ Contains(parseArgs.response, parseArgs.prefix)
    /\ ~StartsWith(parseArgs.response, parseArgs.prefix)
    => parseRet.code = FALSE

IntBits == 8

RECURSIVE Pow2(_)
Pow2(k) == IF k = 0 THEN 1 ELSE 2 * Pow2(k - 1)

INT_MAX == Pow2(IntBits - 1) - 1
INT_MIN == -Pow2(IntBits - 1)
LongWidths == {IntBits, 2 * IntBits}

Digits == <<"0", "1", "2", "3", "4", "5", "6", "7", "8", "9">>
IsDigit(c) == \E d \in 1 .. 10 : Digits[d] = c
DigitVal(c) == (CHOOSE d \in 1 .. 10 : Digits[d] = c) - 1

\* the byte at offset i of the C string s: its terminating NUL is at Len(s)
At(s, i) == IF i < Len(s) THEN s[i + 1] ELSE NUL

\* "while (*start == ' ' || *start == '\t') start++"
RECURSIVE SkipBlanks(_, _)
SkipBlanks(s, i) == IF At(s, i) \in {" ", "\t"} THEN SkipBlanks(s, i + 1) ELSE i

\* printf("%d") and "%lld": the decimal rendering of n
RECURSIVE DecNat(_)
DecNat(n) == IF n < 10 THEN <<Digits[n + 1]>> ELSE DecNat(n \div 10) \o <<Digits[(n % 10) + 1]>>

Dec(n) == IF n < 0 THEN <<"-">> \o DecNat(-n) ELSE DecNat(n)

\* the digits of strtol from offset i on: the magnitude so far is acc, which
\* stays at limit once it has passed it (the result is then out of range)
RECURSIVE StrtolDigits(_, _, _, _)
StrtolDigits(s, i, acc, limit) ==
    IF IsDigit(At(s, i))
    THEN LET a == acc * 10 + DigitVal(At(s, i)) IN
         StrtolDigits(s, i + 1, IF a > limit THEN limit ELSE a, limit)
    ELSE [mag |-> acc, end |-> i]

\* a strtol whose range is symmetric: it cannot return LONG_MIN
strtol_Symmetric(s, start, bits) ==
    LET neg == At(s, start) = "-"
        first == IF At(s, start) \in {"-", "+"} THEN start + 1 ELSE start
        r == StrtolDigits(s, first, 0, Pow2(bits - 1) - 1)
    IN  IF r.end = first THEN [val |-> 0, end |-> start]
        ELSE [val |-> IF neg THEN -r.mag ELSE r.mag, end |-> r.end]

\* strtol(s + start, &end, 10) with a long of bits bits, for a start that is
\* not white space: an optional sign and the digits that follow; a value out
\* of range becomes LONG_MAX or LONG_MIN; without a digit, 0 and end = start
strtol(s, start, bits) ==
    LET neg == At(s, start) = "-"
        first == IF At(s, start) \in {"-", "+"} THEN start + 1 ELSE start
        r == StrtolDigits(s, first, 0, IF neg THEN Pow2(bits - 1) ELSE Pow2(bits - 1) - 1)
    IN  IF r.end = first THEN [val |-> 0, end |-> start]
        ELSE [val |-> IF neg THEN -r.mag ELSE r.mag, end |-> r.end]

\* (int)v for a long v: the value modulo 2^IntBits that is in the range of int
ToInt(v) == ((v + Pow2(IntBits - 1)) % Pow2(IntBits)) - Pow2(IntBits - 1)

\* uAT_ParseInt(response, prefix, delimiter, &value), where value holds
\* value0 before the call and long has bits bits
uAT_ParseInt(response, prefix, value0, bits) ==
    IF response = NullStr \/ prefix = NullStr
    THEN [code |-> "NULL_ARG", value |-> value0]
    ELSE LET k == StrStr(response, prefix) IN
         IF k = -1 THEN [code |-> "PREFIX_NOT_FOUND", value |-> value0]
         ELSE LET start == SkipBlanks(response, k + Len(prefix))
                  c == At(response, start)
              IN  IF c = NUL \/ (c # "-" /\ c # "+" /\ ~IsDigit(c))
                  THEN [code |-> "INVALID_FORMAT", value |-> value0]
                  ELSE LET r == strtol(response, start, bits) IN
                       IF r.end = start
                       THEN [code |-> "INVALID_FORMAT", value |-> ToInt(r.val)]
                       ELSE [code |-> "OK", value |-> ToInt(r.val)]

XPrefix == <<"X", ":", " ">>
ValuePrefix == <<"V", "a", "l", "u", "e", ":", " ">>

\* the responses given to uAT_ParseInt: "X: <n>" and "Value: <n>" for the
\* values of int and as many beyond its range on both sides, a value beyond
\* the range of a long of twice the width, and responses without a number
IntResponses ==
    {XPrefix \o Dec(n) : n \in 3 * INT_MIN .. 3 * INT_MAX}
    \cup {ValuePrefix \o Dec(n) : n \in INT_MAX - 1 .. INT_MAX + 2}
    \cup {XPrefix \o Dec(Pow2(2 * IntBits)), XPrefix \o Dec(-Pow2(2 * IntBits)),
          XPrefix \o <<"a", "b", "c">>, XPrefix \o <<"+", "5">>, XPrefix \o <<" ", "\t", "-", "3">>,
          XPrefix \o <<"1", "2", "a">>, XPrefix \o <<"-">>, XPrefix, <<"Y", ":", " ", "1">>,
          NullStr}

uAT_ParseInt_Call ==
    /\ parseArgs.fn = "none"
    /\ \E r \in IntResponses, p \in {XPrefix, ValuePrefix, NullStr}, v0 \in {0, 1},
          bits \in LongWidths :
        /\ parseArgs' = [fn |-> "uAT_ParseInt", response |-> r, prefix |-> p, value |-> v0,
                         long |-> bits]
        /\ parseRet' = uAT_ParseInt(r, p, v0, bits)
    /\ result' = NoResult
    /\ UNCHANGED libVars

\* C26: for every n from INT_MIN to INT_MAX, uAT_ParseInt of "X: " followed
\* by the decimal rendering of n, with the prefix "X: ", returns UAT_PARSE_OK
\* and stores n, whatever the width of long.
C26_ParseIntRoundTrip ==
    /\ parseArgs.fn = "uAT_ParseInt"
    /\ parseArgs.prefix = XPrefix
    => \A n \in INT_MIN .. INT_MAX :
           parseArgs.response = XPrefix \o Dec(n)
               => parseRet.code = "OK" /\ parseRet.value = n

\* "X: " and the rendering of INT_MIN were parsed with a long as wide as int
C26_Witness ==
    /\ parseArgs.fn = "uAT_ParseInt"
    /\ parseArgs.long = IntBits
    /\ parseArgs.response = XPrefix \o Dec(INT_MIN)
    /\ parseRet = [code |-> "OK", value |-> INT_MIN]

\* C27 as stated: uAT_ParseInt does not return UAT_PARSE_OK when the decimal
\* value after the prefix is greater than INT_MAX.
C27_OverflowDetected ==
    /\ parseArgs.fn = "uAT_ParseInt"
    /\ parseArgs.prefix = ValuePrefix
    => \A n \in INT_MAX + 1 .. INT_MAX + 2 :
           parseArgs.response = ValuePrefix \o Dec(n) => parseRet.code # "OK"

(***************************************************************************)
(* The string parsers: uAT_ParseString, uAT_ParseQuotedString,             *)
(* uAT_ParseEscapedString and uAT_ParseIPAddress.  The caller's buffer is  *)
(* bufferSize bytes, numbered from 0, that hold anything before the call.  *)
(***************************************************************************)
MaxCap == 10

\* a buffer of n bytes none of which is NUL
Junk(n) == [k \in 0 .. n - 1 |-> "?"]

\* memcpy(buffer, s + start, n)
MemCpy(buffer, s, start, n) ==
    [k \in DOMAIN buffer |-> IF k < n THEN At(s, start + k) ELSE buffer[k]]

\* "while (*end != '\0' && *end is in none of stops) end++"
RECURSIVE ScanTo(_, _, _)
ScanTo(s, i, stops) ==
    IF At(s, i) = NUL \/ At(s, i) \in stops THEN i ELSE ScanTo(s, i + 1, stops)

\* the end the parsers that measure the value share: the value is the
\* length bytes of s from start
CopyOut(buffer, bufferSize, s, start, length) ==
    IF length >= bufferSize
    THEN [code |-> "BUFFER_TOO_SMALL",
          buffer |-> [MemCpy(buffer, s, start, bufferSize - 1) EXCEPT ![bufferSize - 1] = NUL]]
    ELSE [code |-> "OK", buffer |-> [MemCpy(buffer, s, start, length) EXCEPT ![length] = NUL]]

uAT_ParseString(response, prefix, buffer, bufferSize) ==
    IF response = NullStr \/ prefix = NullStr \/ bufferSize = 0
    THEN [code |-> "NULL_ARG", buffer |-> buffer]
    ELSE LET b0 == [buffer EXCEPT ![0] = NUL]
             k == StrStr(response, prefix)
         IN  IF k = -1 THEN [code |-> "PREFIX_NOT_FOUND", buffer |-> b0]
             ELSE LET start == SkipBlanks(response, k + Len(prefix)) IN
                  IF At(response, start) = NUL THEN [code |-> "INVALID_FORMAT", buffer |-> b0]
                  ELSE LET end == ScanTo(response, start, {"\r", "\n"}) IN
                       CopyOut(b0, bufferSize, response, start, end - start)

uAT_ParseQuotedString(response, prefix, buffer, bufferSize) ==
    IF response = NullStr \/ prefix = NullStr \/ bufferSize = 0
    THEN [code |-> "NULL_ARG", buffer |-> buffer]
    ELSE LET b0 == [buffer EXCEPT ![0] = NUL]
             k == StrStr(response, prefix)
         IN  IF k = -1 THEN [code |-> "PREFIX_NOT_FOUND", buffer |-> b0]
             ELSE LET quote == SkipBlanks(response, k + Len(prefix)) IN
                  IF At(response, quote) # "\"" THEN [code |-> "INVALID_FORMAT", buffer |-> b0]
                  ELSE LET start == quote + 1
                           end == ScanTo(response, start, {"\""})
                       IN  IF At(response, end) # "\""
                           THEN [code |-> "INVALID_FORMAT", buffer |-> b0]
                           ELSE CopyOut(b0, bufferSize, response, start, end - start)

\* the byte an escape sequence stands for: "switch (*current)"
Unescape(c) ==
    IF c = "n" THEN "\n" ELSE IF c = "r" THEN "\r" ELSE IF c = "t" THEN "\t" ELSE c

\* the loop of uAT_ParseEscapedString from current on
RECURSIVE EscapedLoop(_, _, _, _, _)
EscapedLoop(s, current, buffer, bufIndex, bufferSize) ==
    IF At(s, current) # NUL /\ At(s, current) # "\"" /\ bufIndex < bufferSize - 1
    THEN IF At(s, current) = "\\" /\ At(s, current + 1) # NUL
         THEN EscapedLoop(s, current + 2,
                          [buffer EXCEPT ![bufIndex] = Unescape(At(s, current + 1))],
                          bufIndex + 1, bufferSize)
         ELSE EscapedLoop(s, current + 1, [buffer EXCEPT ![bufIndex] = At(s, current)],
                          bufIndex + 1, bufferSize)
    ELSE [current |-> current, buffer |-> buffer, bufIndex |-> bufIndex]

uAT_ParseEscapedString(response, prefix, buffer, bufferSize) ==
    IF response = NullStr \/ prefix = NullStr \/ bufferSize = 0
    THEN [code |-> "NULL_ARG", buffer |-> buffer]
    ELSE LET b0 == [buffer EXCEPT ![0] = NUL]
             k == StrStr(response, prefix)
         IN  IF k = -1 THEN [code |-> "PREFIX_NOT_FOUND", buffer |-> b0]
             ELSE LET quote == SkipBlanks(response, k + Len(prefix)) IN
                  IF At(response, quote) # "\"" THEN [code |-> "INVALID_FORMAT", buffer |-> b0]
                  ELSE LET r == EscapedLoop(response, quote + 1, b0, 0, bufferSize) IN
                       IF At(response, r.current) # "\""
                       THEN IF r.bufIndex >= bufferSize - 1
                            THEN [code |-> "BUFFER_TOO_SMALL",
                                  buffer |-> [r.buffer EXCEPT ![r.bufIndex] = NUL]]
                            ELSE [code |-> "INVALID_FORMAT", buffer |-> r.buffer]
                       ELSE [code |-> "OK", buffer |-> [r.buffer EXCEPT ![r.bufIndex] = NUL]]

\* the validation loop without the tests of the octet's value
RECURSIVE IPLoop_NoRange(_, _, _, _, _, _)
IPLoop_NoRange(s, ptr, dots, digits, octet_value, valid) ==
    LET c == At(s, ptr) IN
    IF c # NUL /\ c # "\r" /\ c # "\n" /\ c # " " /\ valid
    THEN IF c = "."
         THEN IPLoop_NoRange(s, ptr + 1, dots + 1, 0, 0, valid /\ digits # 0)
         ELSE IF IsDigit(c)
         THEN IPLoop_NoRange(s, ptr + 1, dots, digits + 1, octet_value * 10 + DigitVal(c),
                             valid /\ digits + 1 <= 3)
         ELSE IPLoop_NoRange(s, ptr + 1, dots, digits, octet_value, FALSE)
    ELSE [ptr |-> ptr, dots |-> dots, digits |-> digits, octet_value |-> octet_value,
          valid |-> valid]

\* the validation loop of uAT_ParseIPAddress from ptr on
RECURSIVE IPLoop(_, _, _, _, _, _)
IPLoop(s, ptr, dots, digits, octet_value, valid) ==
    LET c == At(s, ptr) IN
    IF c # NUL /\ c # "\r" /\ c # "\n" /\ c # " " /\ valid
    THEN IF c = "."
         THEN IPLoop(s, ptr + 1, dots + 1, 0, 0, valid /\ digits # 0 /\ octet_value <= 255)
         ELSE IF IsDigit(c)
         THEN LET v == octet_value * 10 + DigitVal(c) IN
              IPLoop(s, ptr + 1, dots, digits + 1, v, valid /\ digits + 1 <= 3 /\ v <= 255)
         ELSE IPLoop(s, ptr + 1, dots, digits, octet_value, FALSE)
    ELSE [ptr |-> ptr, dots |-> dots, digits |-> digits, octet_value |-> octet_value,
          valid |-> valid]

uAT_ParseIPAddress(response, prefix, buffer, bufferSize) ==
    IF response = NullStr \/ prefix = NullStr \/ bufferSize = 0
    THEN [code |-> "NULL_ARG", buffer |-> buffer]
    ELSE LET b0 == [buffer EXCEPT ![0] = NUL]
             k == StrStr(response, prefix)
         IN  IF k = -1 THEN [code |-> "PREFIX_NOT_FOUND", buffer |-> b0]
             ELSE LET start == SkipBlanks(response, k + Len(prefix))
                      r == IPLoop(response, start, 0, 0, 0, TRUE)
                      valid == r.valid /\ ~(r.digits = 0 \/ r.octet_value > 255)
                      length == r.ptr - start
                  IN  IF ~valid \/ r.dots # 3 \/ r.digits = 0
                      THEN [code |-> "INVALID_FORMAT", buffer |-> b0]
                      ELSE IF length >= bufferSize
                      THEN [code |-> "BUFFER_TOO_SMALL", buffer |-> b0]
                      ELSE [code |-> "OK",
                            buffer |-> [MemCpy(b0, response, start, length) EXCEPT ![length] = NUL]]

StringParsers ==
    {"uAT_ParseString", "uAT_ParseQuotedString", "uAT_ParseEscapedString", "uAT_ParseIPAddress"}

\* the function fn of uat_parser.c applied to its arguments
Parse(fn, response, prefix, buffer, bufferSize) ==
    IF fn = "uAT_ParseString" THEN uAT_ParseString(response, prefix, buffer, bufferSize)
    ELSE IF fn = "uAT_ParseQuotedString"
    THEN uAT_ParseQuotedString(response, prefix, buffer, bufferSize)
    ELSE IF fn = "uAT_ParseEscapedString"
    THEN uAT_ParseEscapedString(response, prefix, buffer, bufferSize)
    ELSE uAT_ParseIPAddress(response, prefix, buffer, bufferSize)

SPrefix == <<"S", ":", " ">>

\* the values that follow the prefix "S: " in the responses given to the
\* string parsers
StringValues ==
    {<<"a", "b", "c">>,
     <<"a", "b", "c", "\r", "\n">>,
     <<>>,
     <<"\r", "\n">>,
     <<"\n">>,
     <<" ", "\t", "a", "b">>,
     <<"a", "b", "c", "d", "e", "f", "g", "h">>,
     <<"a", "\r", "b">>,
     <<"\"", "a", "b", "c", "\"">>,
     <<"\"", "a", "b", "c">>,
     <<"\"", "\"">>,
     <<"\"", "a", "b", "c", "d", "e", "f", "g", "h", "\"">>,
     <<"\"", "a", "\"", "b", "\"">>,
     <<"\"", "a", "\\", "n", "b", "\"">>,
     <<"\"", "a", "\\", "\"", "b", "\"">>,
     <<"\"", "a", "b", "\\">>,
     <<"\"", "a", "b", "c", "d", "e", "f", "g", "h">>,
     <<"\"", "\\", "q", "\\", "\\", "\"">>,
     <<"\"", "a", "b", "c", "d", "e", "f", "g", "\\">>,
     <<"1", ".", "2", ".", "3", ".", "4">>,
     <<"1", "9", "2", ".", "1", "6", "8", ".", "1", ".", "1">>,
     <<"1", ".", "2", ".", "3">>,
     <<"2", "5", "6", ".", "1", ".", "1", ".", "1">>,
     <<"1", ".", ".", "2", ".", "3">>,
     <<"1", ".", "2", ".", "3", ".", "4", " ", "x">>,
     <<"1", ".", "2", ".", "3", ".", "4", "\r", "\n">>,
     <<"1", ".", "2", ".", "3", ".", "a">>,
     <<"1", "2", "3", "4", ".", "1", ".", "1", ".", "1">>,
     <<"1", ".", "2", ".", "3", ".", "4", ".">>,
     <<"1", ".", "2", ".", "3", ".", "4", ".", "5">>,
     <<"2", "5", "5", ".", "0", ".", "0", ".", "1">>,
     <<"1", ".", "2", ".", "3", ".", "2", "5", "5">>,
     <<"1", ".", "2", ".", "3", ".", "2", "5", "6">>,
     <<"1", ".", "2", ".", "3", ".", "9", "9", "9">>,
     <<"0", "1", ".", "2", ".", "3", ".", "4">>,
     <<"0", "0", "0", "1", ".", "2", ".", "3", ".", "4">>,
     <<"1", ".", "2", ".", "3", ".", "4", "\t">>,
     <<"1", ".", "2", ".", "3", ".", "4", "\n", "5">>,
     <<" ", "1", ".", "2", ".", "3", ".", "4">>,
     <<".", "1", ".", "2", ".", "3">>}

StringResponses == {SPrefix \o v : v \in StringValues} \cup {<<"T", ":", " ", "x">>, NullStr}

\* a call of one of the string parsers with a buffer of 1 .. MaxCap bytes
\* that is zeroed or holds no NUL at all
StringParser_Call(fn) ==
    /\ parseArgs.fn = "none"
    /\ \E r \in StringResponses, p \in {SPrefix, NullStr}, cap \in 1 .. MaxCap :
       \E before \in {Zeroed(cap), Junk(cap)} :
        /\ parseArgs' = [fn |-> fn, response |-> r, prefix |-> p, buffer |-> before,
                         bufferSize |-> cap]
        /\ parseRet' = Parse(fn, r, p, before, cap)
    /\ result' = NoResult
    /\ UNCHANGED libVars

uAT_ParseString_Call == StringParser_Call("uAT_ParseString")
uAT_ParseQuotedString_Call == StringParser_Call("uAT_ParseQuotedString")
uAT_ParseEscapedString_Call == StringParser_Call("uAT_ParseEscapedString")
uAT_ParseIPAddress_Call == StringParser_Call("uAT_ParseIPAddress")

\* ULONG_MAX for an unsigned long of twice the bits of int
ULONG_MAX == Pow2(2 * IntBits) - 1

\* uAT_ParseBinaryData(response, prefix, buffer, bufferSize, &dataSize) with
\* dataSize0 in *dataSize before the call
uAT_ParseBinaryData(response, prefix, buffer, bufferSize, dataSize0) ==
    IF response = NullStr \/ prefix = NullStr \/ bufferSize = 0
    THEN [code |-> "NULL_ARG", buffer |-> buffer, dataSize |-> dataSize0]
    ELSE LET k == StrStr(response, prefix) IN
         IF k = -1 THEN [code |-> "PREFIX_NOT_FOUND", buffer |-> buffer, dataSize |-> 0]
         ELSE LET start == SkipBlanks(response, k + Len(prefix))
                  n == StrtolDigits(response, start, 0, ULONG_MAX)
                  counted == IsDigit(At(response, start))
                  expectedLength == IF counted THEN n.mag ELSE 0
                  dataStart == IF counted
                               THEN IF At(response, n.end) \in {",", ":"} THEN n.end + 1
                                    ELSE n.end
                               ELSE start
                  availableData == Len(response) - dataStart
                  copyLength == IF expectedLength > 0 /\ expectedLength <= availableData
                                THEN expectedLength
                                ELSE availableData
              IN  IF copyLength > bufferSize
                  THEN [code |-> "BUFFER_TOO_SMALL",
                        buffer |-> MemCpy(buffer, response, dataStart, bufferSize),
                        dataSize |-> bufferSize]
                  ELSE [code |-> "OK",
                        buffer |-> MemCpy(buffer, response, dataStart, copyLength),
                        dataSize |-> copyLength]

\* the values that follow the prefix "S: " in the responses given to
\* uAT_ParseBinaryData
BinaryValues ==
    {<<"3", ",", "a", "b", "c", "d", "e">>,
     <<"0", ",", "a", "b", "c">>,
     <<"9", ",", "a", "b", "c">>,
     <<"a", "b", "c">>,
     <<"2", ":", "a", "b">>,
     <<"2", "a", "b">>,
     <<"3">>,
     <<"0">>,
     <<>>,
     <<"1", "2", ",", "a", "b", "c", "d", "e", "f", "g", "h", "i", "j", "k", "l">>,
     <<"a", "b", "c", "d", "e", "f", "g", "h", "i", "j", "k", "l">>,
     <<"1", ",", "\r", "\n">>,
     <<"0", "\r", "\n">>,
     <<" ", "2", ",", "a", "b">>,
     <<"x", "1", ",", "a">>,
     <<"0", "2", ",", "a", "b", "c">>}

BinaryResponses == {SPrefix \o v : v \in BinaryValues} \cup {<<"T", ":", " ", "x">>, NullStr}

uAT_ParseBinaryData_Call ==
    /\ parseArgs.fn = "none"
    /\ \E r \in BinaryResponses, p \in {SPrefix, NullStr}, cap \in 1 .. MaxCap, d0 \in {0, 1} :
       \E before \in {Zeroed(cap), Junk(cap)} :
        /\ parseArgs' = [fn |-> "uAT_ParseBinaryData", response |-> r, prefix |-> p,
                         buffer |-> before, bufferSize |-> cap, dataSize |-> d0]
        /\ parseRet' = uAT_ParseBinaryData(r, p, before, cap, d0)
    /\ result' = NoResult
    /\ UNCHANGED libVars

InitParse ==
    /\ cmdHandlers = <<>>
    /\ inSendReceive = FALSE
    /\ srBuffer = NULL
    /\ srBufferSize = 0
    /\ srBufferPos = 0
    /\ outBuf = [t \in Tasks |-> Zeroed(BufLen(t))]
    /\ handlerMutex = FREE
    /\ sendReceiveSem = 0
    /\ txMutex = FREE
    /\ txComplete = 0
    /\ txBusy = FALSE
    /\ txBuffer = <<>>
    /\ pc = [t \in Tasks |-> Home(t)]
    /\ arg = [t \in Tasks |-> NoArg]
    /\ result = NoResult
    /\ lineBuf = <<>>
    /\ handler = NoHandler
    /\ nLines = 0
    /\ nSR = 0
    /\ nReg = 0
    /\ role = [A1 |-> "none", A2 |-> "none"]
    /\ RxInit
    /\ ParseInit

NextParse ==
    \/ uAT_HasPrefix_Call
    \/ uAT_IsError_Call
    \/ uAT_IsOK_Call
    \/ uAT_ParseInt_Call
    \/ uAT_ParseString_Call
    \/ uAT_ParseQuotedString_Call
    \/ uAT_ParseEscapedString_Call
    \/ uAT_ParseIPAddress_Call
    \/ uAT_ParseBinaryData_Call

SpecParse == InitParse /\ [][NextParse]_vars

\* a call of a string parser with a response, a prefix and a buffer
StringCall ==
    /\ parseArgs.fn \in StringParsers
    /\ parseArgs.response # NullStr
    /\ parseArgs.prefix # NullStr

\* some byte of the buffer is NUL
Terminated(buffer) == \E k \in DOMAIN buffer : buffer[k] = NUL

\* what the call's parser returns for the same response and prefix with a
\* buffer that holds all of the response
Unbounded ==
    Parse(parseArgs.fn, parseArgs.response, parseArgs.prefix,
          Zeroed(Len(parseArgs.response) + 1), Len(parseArgs.response) + 1)

\* C28 as stated: after a call of a string parser with non-NULL arguments
\* and a buffer of at least one byte, some byte of the buffer is NUL,
\* whatever the return code.
C28_AlwaysTerminated ==
    StringCall => Terminated(parseRet.buffer)

\* C29 as stated: when a string parser returns UAT_PARSE_BUFFER_TOO_SMALL,
\* the buffer holds the first bufferSize - 1 bytes of the value the parser
\* returns with a buffer that is large enough, and then a NUL.
C29_TruncatedValue ==
    /\ StringCall
    /\ parseRet.code = "BUFFER_TOO_SMALL"
    /\ Unbounded.code = "OK"
    => /\ parseRet.buffer[parseArgs.bufferSize - 1] = NUL
       /\ \A k \in 0 .. parseArgs.bufferSize - 2 :
              parseRet.buffer[k] = Unbounded.buffer[k]

\* C30 as stated: uAT_ParseString returns UAT_PARSE_INVALID_FORMAT when the
\* byte after the prefix and the blanks that follow it is CR, LF or NUL, and
\* UAT_PARSE_OK only with an output that is not empty and has no CR or LF.
C30_EmptyIsInvalid ==
    /\ StringCall
    /\ parseArgs.fn = "uAT_ParseString"
    /\ StrStr(parseArgs.response, parseArgs.prefix) # -1
    => LET start == SkipBlanks(parseArgs.response,
                               StrStr(parseArgs.response, parseArgs.prefix)
                                   + Len(parseArgs.prefix))
           out == CStr(parseRet.buffer)
       IN  /\ At(parseArgs.response, start) \in {"\r", "\n", NUL}
               => parseRet.code = "INVALID_FORMAT"
           /\ parseRet.code = "OK"
               => /\ out # <<>>
                  /\ \A i \in 1 .. Len(out) : out[i] \notin {"\r", "\n"}

\* the offset of the value in the call's response: after the first
\* occurrence of the prefix and the SP and HT bytes that follow it
ValueStart ==
    SkipBlanks(parseArgs.response,
               StrStr(parseArgs.response, parseArgs.prefix) + Len(parseArgs.prefix))

\* the bytes of the call's response from offset a up to offset b
Slice(a, b) == [k \in 1 .. b - a |-> At(parseArgs.response, a + k - 1)]

\* the parts of t between its dots
RECURSIVE SplitDots(_)
SplitDots(t) ==
    IF \E i \in 1 .. Len(t) : t[i] = "."
    THEN LET i == CHOOSE i \in 1 .. Len(t) :
                      t[i] = "." /\ \A j \in 1 .. i - 1 : t[j] # "."
         IN  <<SubSeq(t, 1, i - 1)>> \o SplitDots(SubSeq(t, i + 1, Len(t)))
    ELSE <<t>>

\* the number whose decimal digits are o
RECURSIVE NatOf(_)
NatOf(o) ==
    IF o = <<>> THEN 0 ELSE NatOf(SubSeq(o, 1, Len(o) - 1)) * 10 + DigitVal(o[Len(o)])

\* t is four numbers of one to three digits, none above 255, with a dot
\* between each two
IsDottedQuad(t) ==
    LET parts == SplitDots(t) IN
    /\ Len(parts) = 4
    /\ \A k \in 1 .. 4 :
          /\ Len(parts[k]) \in 1 .. 3
          /\ \A i \in 1 .. Len(parts[k]) : IsDigit(parts[k][i])
          /\ NatOf(parts[k]) <= 255

\* C31: for a response that has the prefix and a buffer longer than the text
\* from the value's start to the first CR, LF, space or NUL,
\* uAT_ParseIPAddress returns UAT_PARSE_OK exactly when that text is four
\* octets of one to three digits and at most 255 with three dots between
\* them, and UAT_PARSE_INVALID_FORMAT otherwise; on UAT_PARSE_OK the buffer
\* holds that text.
C31_DottedQuad ==
    /\ StringCall
    /\ parseArgs.fn = "uAT_ParseIPAddress"
    /\ StrStr(parseArgs.response, parseArgs.prefix) # -1
    => LET text == Slice(ValueStart, ScanTo(parseArgs.response, ValueStart, {"\r", "\n", " "}))
       IN  parseArgs.bufferSize > Len(text)
           => /\ parseRet.code = IF IsDottedQuad(text) THEN "OK" ELSE "INVALID_FORMAT"
              /\ parseRet.code = "OK" => CStr(parseRet.buffer) = text

\* "255.0.0.1" was taken out of "S: 255.0.0.1" into a buffer of ten bytes
\* that held no NUL
C31_Witness ==
    /\ parseArgs.fn = "uAT_ParseIPAddress"
    /\ parseArgs.buffer = Junk(Len(parseArgs.response) - Len(SPrefix) + 1)
    /\ parseRet.code = "OK"
    /\ CStr(parseRet.buffer) = <<"2", "5", "5", ".", "0", ".", "0", ".", "1">>

\* C32 as stated: for a response that has the prefix, uAT_ParseBinaryData
\* copies the first min(count, remaining, bufferSize) bytes of the payload
\* when the value starts with a decimal count (the payload starts after the
\* count and one ',' or ':' if there is one), whatever the count, 0 too,
\* and the first min(remaining, bufferSize) bytes when it does not start with
\* a digit; *dataSize is the number of bytes copied; the call returns
\* UAT_PARSE_BUFFER_TOO_SMALL exactly when the payload to copy is longer than
\* the buffer.
C32_CopiesMin ==
    /\ parseArgs.fn = "uAT_ParseBinaryData"
    /\ parseArgs.response # NullStr
    /\ parseArgs.prefix # NullStr
    /\ StrStr(parseArgs.response, parseArgs.prefix) # -1
    => LET r == parseArgs.response
           counted == IsDigit(At(r, ValueStart))
           e == CHOOSE e \in ValueStart .. Len(r) :
                    /\ \A k \in ValueStart .. e - 1 : IsDigit(At(r, k))
                    /\ ~IsDigit(At(r, e))
           count == NatOf(Slice(ValueStart, e))
           payload == IF ~counted THEN ValueStart
                      ELSE IF At(r, e) \in {",", ":"} THEN e + 1 ELSE e
           remaining == Len(r) - payload
           wanted == IF counted THEN Min(count, remaining) ELSE remaining
           n == Min(wanted, parseArgs.bufferSize)
       IN  /\ parseRet.dataSize = n
           /\ \A k \in 0 .. n - 1 : parseRet.buffer[k] = At(r, payload + k)
           /\ \A k \in n .. parseArgs.bufferSize - 1 : parseRet.buffer[k] = parseArgs.buffer[k]
           /\ parseRet.code = IF wanted > parseArgs.bufferSize THEN "BUFFER_TOO_SMALL" ELSE "OK"

(***************************************************************************)
(* The argument pointer of uAT_DispatchCommand: the function applied to a  *)
(* table and a line, one call in a behaviour.                              *)
(***************************************************************************)
\* the bytes of the lines given to uAT_DispatchCommand
ArgBytes == {"X", "a", " ", "\t"}

\* every line of at most UAT_RX_BUFFER_SIZE - 1 bytes, the longest the framer
\* returns
ArgLines == UNION {[1 .. n -> ArgBytes] : n \in 0 .. UAT_RX_BUFFER_SIZE - 1}

ArgTables ==
    {<<>>,
     <<Entry(PfxX, "h1")>>,
     <<Entry(<<"X", "a">>, "h2"), Entry(PfxX, "h1")>>,
     <<Entry(<<"X", " ">>, "h2")>>,
     <<Entry(PfxX, NoHandler), Entry(PfxX, "h1")>>}

uAT_DispatchCommand_Call ==
    /\ parseArgs.fn = "none"
    /\ \E tbl \in ArgTables, line \in ArgLines :
        /\ parseArgs' = [fn |-> "uAT_DispatchCommand", cmdHandlers |-> tbl, line |-> line]
        /\ parseRet' = uAT_DispatchCommand(tbl, line, Len(line))
    /\ result' = NoResult
    /\ UNCHANGED libVars

NextArgs == uAT_DispatchCommand_Call

SpecArgs == InitParse /\ [][NextArgs]_vars

\* the call found a handler for its line: what follows the prefix of the
\* first entry that matches, in the line as uAT_DispatchCommand compares it
AfterPrefix ==
    LET safe == SafeLine(parseArgs.line, Len(parseArgs.line))
        m == Matching(parseArgs.cmdHandlers, safe)
        e == parseArgs.cmdHandlers[CHOOSE i \in m : \A j \in m : i <= j]
    IN  SubSeq(safe, Len(e.command) + 1, Len(safe))

\* s without its leading bytes that are in blanks
Stripped(s, blanks) ==
    LET n == CHOOSE n \in 0 .. Len(s) :
                 /\ \A i \in 1 .. n : s[i] \in blanks
                 /\ n = Len(s) \/ s[n + 1] \notin blanks
    IN  SubSeq(s, n + 1, Len(s))

\* C33 as stated: the handler's argument is what follows the matched prefix
\* without its leading spaces and horizontal tabs.
C33_BlanksSkipped ==
    parseArgs.fn = "uAT_DispatchCommand" /\ parseRet.found
        => parseRet.args = Stripped(AfterPrefix, {" ", "\t"})

\* C33: the handler's argument is what follows the matched prefix without its
\* leading spaces; a horizontal tab is not skipped, it and what follows it
\* are part of the argument.
C33_SpacesSkipped ==
    parseArgs.fn = "uAT_DispatchCommand" /\ parseRet.found
        => parseRet.args = Stripped(AfterPrefix, {" "})

\* the line "X <HT>a" was dispatched to the handler of "X" with the
\* argument "<HT>a"
C33_Witness ==
    /\ parseArgs.fn = "uAT_DispatchCommand"
    /\ parseArgs.line = <<"X", " ", "\t", "a">>
    /\ parseRet.found
    /\ parseRet.handler = "h1"
    /\ parseRet.args = <<"\t", "a">>

(***************************************************************************)
(* The DMA transfer counter.  __HAL_DMA_GET_COUNTER reads the number of    *)
(* transfers left: UAT_DMA_RX_SIZE after the start, one less after each    *)
(* byte, 0 after the last byte of the buffer.  A circular DMA then loads   *)
(* the counter with UAT_DMA_RX_SIZE again; a DMA in normal mode stops.     *)
(* dmaPos is UAT_DMA_RX_SIZE minus the counter.                            *)
(***************************************************************************)
\* the UART receives a byte and the DMA stores it and counts down
DMA_Receive_Count ==
    /\ Len(wire) < MaxBytes
    /\ dmaPos < UAT_DMA_RX_SIZE
    /\ LET b == Len(wire) + 1 IN
       /\ wire' = Append(wire, b)
       /\ uart_dma_rx_buf' = [uart_dma_rx_buf EXCEPT ![dmaPos] = b]
    /\ dmaPos' = dmaPos + 1
    /\ result' = NoResult
    /\ UNCHANGED <<uatVars, outBuf, handlerMutex, sendReceiveSem, txVars, taskVars, pc, arg,
                   nSR, nReg, role, parseVars, dma_last_pos, rxStream, dest, total, seen, intact, got>>

\* the circular DMA loads its counter again after the last transfer
DMA_Reload ==
    /\ dmaPos = UAT_DMA_RX_SIZE
    /\ dmaPos' = 0
    /\ result' = NoResult
    /\ UNCHANGED <<uatVars, outBuf, handlerMutex, sendReceiveSem, txVars, taskVars, pc, arg,
                   nSR, nReg, role, parseVars, uart_dma_rx_buf, dma_last_pos, rxStream, dest, total,
                   wire, seen, intact, got>>

InitCnt ==
    /\ cmdHandlers = <<>>
    /\ inSendReceive = FALSE
    /\ srBuffer = NULL
    /\ srBufferSize = 0
    /\ srBufferPos = 0
    /\ outBuf = [t \in Tasks |-> Zeroed(BufLen(t))]
    /\ handlerMutex = FREE
    /\ sendReceiveSem = 0
    /\ txMutex = FREE
    /\ txComplete = 0
    /\ txBusy = FALSE
    /\ txBuffer = <<>>
    /\ pc = [t \in Tasks |-> Home(t)]
    /\ arg = [t \in Tasks |-> NoArg]
    /\ result = NoResult
    /\ lineBuf = <<>>
    /\ handler = NoHandler
    /\ nLines = 0
    /\ nSR = 0
    /\ nReg = 0
    /\ role = [A1 |-> "none", A2 |-> "resetter"]
    /\ RxInit
    /\ ParseInit

NextCnt ==
    \/ DMA_Receive_Count
    \/ DMA_Reload
    \/ USARTx_IRQHandler
    \/ xStreamBufferReceive
    \/ ResetCall

SpecCnt == InitCnt /\ [][NextCnt]_vars

\* C34 as stated: dma_last_pos is at least 0 and less than UAT_DMA_RX_SIZE in
\* every reachable state, whatever the DMA counter reads (0 too) and whatever
\* idle events and resets there were.
C34_CursorInRange ==
    dma_last_pos \in 0 .. UAT_DMA_RX_SIZE - 1

\* C35 as stated: no two entries of the handler table have the same prefix.
C35_NoDuplicatePrefix ==
    \A i, j \in 1 .. Len(cmdHandlers) :
        cmdHandlers[i].command = cmdHandlers[j].command => i = j

\* the entries of tbl that the user registered, in their order
UserEntries(tbl) == SelectSeq(tbl, LAMBDA e : e.handler # uAT_CommandHandler_SendReceive)

\* task t leaves the setup or the cleanup of its uAT_SendReceive, the two
\* places where the call writes the table
TableStep(t) == pc[t] \in {"sr_setup", "sr_cleanup"} /\ pc'[t] # pc[t]

\* C36 as stated: uAT_SendReceive leaves the entries the user registered as
\* they are (prefixes, callbacks, order), in its setup and in its cleanup, and
\* when it has returned no entry with uAT_CommandHandler_SendReceive is in the
\* table; so without a registration during the call the table after it is
\* the table before it, also when expected is the prefix of a user's entry.
C36_UserEntriesKept ==
    /\ [][\A t \in Tasks :
            TableStep(t) => UserEntries(cmdHandlers') = UserEntries(cmdHandlers)]_vars
    /\ [](SRReturned({"OK", "TIMEOUT", "SEND_FAIL"}) => UserEntries(cmdHandlers) = cmdHandlers)

\* C37 as stated: a step of the dispatcher writes the output buffer of a
\* task only while that task is in uAT_SendReceive between its setup and its
\* return, never after the call has returned.
C37_NoWriteAfterReturn ==
    [][TakeStep => \A t \in Tasks : outBuf'[t] # outBuf[t] => SRInFlight(t)]_vars

\* task t takes uat.txComplete with this step: its uAT_SendCommand returns
\* UAT_OK
DoneStep(t) == pc[t] = "tx_wait" /\ txComplete = 1 /\ pc'[t] # "tx_wait"

\* C38 as stated: uAT_SendCommand returns UAT_OK only when the transmission
\* it started is over; a signal left in uat.txComplete by the transmission of
\* an earlier call does not end the wait of a later call whose own
\* transmission is still in progress.
C38_OwnCompletion ==
    [][\A t \in Tasks : DoneStep(t) => ~txBusy]_vars

\* task t, with uat.txMutex taken, formats its command into uat.txBuffer with
\* this step
FormatStep(t) == pc[t] = "tx_take" /\ txMutex = FREE /\ pc'[t] # "tx_take"

\* C39 as stated: no uAT_SendCommand formats a command into uat.txBuffer
\* while a transmission from that buffer is in progress, also after the call
\* that started the transmission has returned UAT_ERR_TIMEOUT.
C39_ScratchStable ==
    [][\A t \in Tasks : FormatStep(t) => ~txBusy]_vars

\* s ends with the configured line terminator
Terminated_Line(s) ==
    /\ Len(s) >= Len(UAT_LINE_TERMINATOR)
    /\ SubSeq(s, Len(s) - Len(UAT_LINE_TERMINATOR) + 1, Len(s)) = UAT_LINE_TERMINATOR

\* C40 as stated: every non-empty line uAT_Task hands to the matcher is a
\* whole line: it ends with UAT_LINE_TERMINATOR or it has been cut at
\* UAT_RX_BUFFER_SIZE - 1 bytes; bytes that arrive on both sides of a timeout
\* of xStreamBufferReceiveUntilDelimiter are not dispatched as fragments.
C40_WholeLines ==
    (Dispatching /\ Len(lineBuf) > 0) =>
        \/ Terminated_Line(lineBuf)
        \/ Len(lineBuf) = UAT_RX_BUFFER_SIZE - 1

====
